---- MODULE Spec2Model ----
(***************************************************************************)
(* A model of the numbering core of obsidian-math-booster:                 *)
(*   - the numeral formatter (toRomanUpper, toAlphUpper, CONVERTER),       *)
(*   - prefix inference (inferNumberPrefix, areValidLabels),               *)
(*   - the settings resolver (getAncestors, resolveSettings),              *)
(*   - the title and label formatter (formatTitle, getNumberPrefix,        *)
(*     getEqNumberPrefix, formatLabel),                                    *)
(*   - the theorem callout reader (readTheoremCalloutSettings) and the     *)
(*     scan that builds the index of a note from its callout headers,      *)
(*   - the vault index under create, modify, rename and delete events,     *)
(*   - isEqualToOrChildOf on the tree of the vault,                        *)
(*   - the modals that exclude files and open the local settings           *)
(*     (FileExcludeSuggestModal, ContextSettingModal),                     *)
(*   - the suggester's insertion of a link (Suggest.selectSuggestionImpl,  *)
(*     insertBlockIdIfNotExist).                                           *)
(* A JavaScript string is a sequence of one-character strings, so that     *)
(* split, join, slice, endsWith and the regular expressions of the source  *)
(* are computed character by character.                                    *)
(***************************************************************************)
EXTENDS Integers, Sequences, FiniteSets, TLC

VARIABLES
    num,        \* the argument of the numeral converter call
    style,      \* the NumberStyle that selects the converter
    numeral,    \* the outcome of CONVERTER[style](num), or Pending
    source,     \* inferNumberPrefix: the file base name or property value
    parseSep,   \* inferNumberPrefix: the characters the head is split on
    printSep,   \* inferNumberPrefix: the separator the labels are joined with
    useFirstN,  \* inferNumberPrefix: how many labels are used
    labels,     \* inferNumberPrefix: its local labels (the split head)
    prefix,     \* the outcome of inferNumberPrefix, or Pending
    pluginSettings,   \* plugin.settings: the per-path store, path -> object
    currentFile,      \* resolveSettings: the file or folder resolved for
    settings,         \* resolveSettings: the local overrides, or none
    ancestors,        \* resolveSettings: its local ancestors
    resolvedSettings, \* the object resolveSettings returns, or pending
    heap,             \* the objects of the program, by reference
    resolvedRef,      \* the reference resolveSettings returns, or NoRef
    pendingCalls,     \* the resolveSettings calls the callers still make
    titleSettings,    \* the settings object passed to the formatter functions
    note,             \* the file passed to the formatter functions
    noTitleSuffix,    \* formatTitle: its last argument
    title,            \* the outcome of formatTitle, or Pending
    numberPrefix,     \* the outcome of getNumberPrefix, or Pending
    eqNumberPrefix,   \* the outcome of getEqNumberPrefix, or Pending
    formattedLabel,   \* the outcome of formatLabel, or Pending
    lines,            \* the section header lines of the note, in document order
    position,         \* how many of the lines the scan has gone through
    noteIndex,        \* the index of the note: its items, in document order
    scanRaised,       \* the exception that left the scan, or "none"
    notePath,         \* the path of every note, or NoPath when it is not in the vault
    noteLines,        \* the section header lines of every note
    vaultIndex,       \* the vault index: path -> the items of the note
    lastEvent,        \* the vault event handled last
    file1,            \* isEqualToOrChildOf: its first argument
    file2,            \* isEqualToOrChildOf: its second argument
    childOf,          \* what isEqualToOrChildOf returns, or that it never returns
    excludedFiles,    \* plugin.excludedFiles: the excluded paths, in order
    contextSettings,  \* plugin.settings as the modals use it: path -> record
    contextModal,     \* the ContextSettingModal opened last, or NoModal
    closeLog,         \* what the close of the ContextSettingModal did, in order
    docs,             \* the lines of the edited note and of the other note
    fileCache,        \* the metadata cache of the note of the suggested item
    suggestion,       \* the suggested item and the context of the suggester
    selected          \* the selection of the item: how far it is, and what it did

numeralVars == <<num, style, numeral>>
prefixVars == <<source, parseSep, printSep, useFirstN, labels, prefix>>
resolveVars == <<pluginSettings, currentFile, settings, ancestors, resolvedSettings,
                 heap, resolvedRef, pendingCalls>>
formatVars == <<titleSettings, note, noTitleSuffix, title, numberPrefix, eqNumberPrefix,
                formattedLabel>>
indexVars == <<lines, position, noteIndex, scanRaised>>
vaultVars == <<notePath, noteLines, vaultIndex, lastEvent>>
childOfVars == <<file1, file2, childOf>>
modalVars == <<excludedFiles, contextSettings, contextModal, closeLog>>
suggestVars == <<docs, fileCache, suggestion, selected>>
vars == <<numeralVars, prefixVars, resolveVars, formatVars, indexVars, vaultVars, childOfVars, modalVars, suggestVars>>

(***************************************************************************)
(* Bounds of the model.                                                    *)
(***************************************************************************)
\* numbers -MaxNeg .. MaxNum are given to the converters
MaxNum == 4000
MaxNeg == 2100
\* sources of every length up to MaxLen over SourceChars are given to
\* inferNumberPrefix, with useFirstN in 0..MaxUseFirstN
MaxLen == 4
MaxUseFirstN == 3
\* the vault is a chain of nested nodes of depth 0 (the root folder) to MaxDepth
MaxDepth == 2
\* resolveSettings is called up to MaxCalls times on the same store
MaxCalls == 2
\* the callouts formatted have an _index in 0..MaxIndex, or none
MaxIndex == 2
\* the sections of a scanned note
MaxSections == 4
\* the characters of a generated block id (6 unless the caller says otherwise)
IdLength == 1
\* the lines of a section at most
MaxSecLines == 2
\* the paths plugin.excludedFiles holds at most
MaxExcluded == 2
\* the records the per-path store of the modals holds at most
MaxRecords == 2
\* the section header lines of a note of the vault
MaxNoteLines == 2

(***************************************************************************)
(* JavaScript values and string primitives used by the source.             *)
(***************************************************************************)
\* A JavaScript number that is either an integer or NaN.
NaN == [nan |-> TRUE, v |-> 0]
Num(v) == [nan |-> FALSE, v |-> v]

\* The outcome of a call: a string, undefined, or an exception that propagates
\* (kind names it); Pending stands for a call that has not been made yet.
Returned(s) == [kind |-> "string", str |-> s]
Undefined == [kind |-> "undefined", str |-> <<>>]
Thrown(e) == [kind |-> e, str |-> <<>>]
Pending == [kind |-> "pending", str |-> <<>>]

DigitChars == <<"0", "1", "2", "3", "4", "5", "6", "7", "8", "9",
                "a", "b", "c", "d", "e", "f", "g", "h", "i", "j",
                "k", "l", "m", "n", "o", "p">>

UpperChars == <<"A", "B", "C", "D", "E", "F", "G", "H", "I", "J", "K", "L", "M",
                "N", "O", "P", "Q", "R", "S", "T", "U", "V", "W", "X", "Y", "Z">>

LowerChars == <<"a", "b", "c", "d", "e", "f", "g", "h", "i", "j", "k", "l", "m",
                "n", "o", "p", "q", "r", "s", "t", "u", "v", "w", "x", "y", "z">>

IndexIn(c, chars) == CHOOSE i \in 1..Len(chars) : chars[i] = c

IsIn(c, chars) == \E i \in 1..Len(chars) : chars[i] = c

RECURSIVE Concat(_)
\* Array.prototype.join("") of an array of strings
Concat(ss) == IF ss = <<>> THEN <<>> ELSE Head(ss) \o Concat(Tail(ss))

\* String.prototype.toLowerCase
toLowerCase(s) ==
    [i \in 1..Len(s) |->
        IF IsIn(s[i], UpperChars) THEN LowerChars[IndexIn(s[i], UpperChars)] ELSE s[i]]

\* String.prototype.toUpperCase
toUpperCase(s) ==
    [i \in 1..Len(s) |->
        IF IsIn(s[i], LowerChars) THEN UpperChars[IndexIn(s[i], LowerChars)] ELSE s[i]]

RECURSIVE NatToString(_, _)
NatToString(n, radix) ==
    IF n < radix THEN <<DigitChars[n + 1]>>
    ELSE NatToString(n \div radix, radix) \o <<DigitChars[(n % radix) + 1]>>

\* String(n) and Number.prototype.toString(radix) of an integer
NumberToString(n, radix) ==
    IF n < 0 THEN <<"-">> \o NatToString(-n, radix) ELSE NatToString(n, radix)

RECURSIVE DigitsValue(_, _)
DigitsValue(s, radix) ==
    IF s = <<>> THEN 0
    ELSE DigitsValue(SubSeq(s, 1, Len(s) - 1), radix) * radix
            + (IndexIn(s[Len(s)], DigitChars) - 1)

IsDigits(s, radix) ==
    /\ s # <<>>
    /\ \A i \in 1..Len(s) :
          IsIn(s[i], DigitChars) /\ IndexIn(s[i], DigitChars) <= radix

\* The unary plus of the source, on the strings String(n) is made of:
\* "" is 0, a decimal numeral with an optional minus sign is its value,
\* anything else (a lone "-") is NaN.
UnaryPlus(s) ==
    IF s = <<>> THEN Num(0)
    ELSE IF IsDigits(s, 10) THEN Num(DigitsValue(s, 10))
    ELSE IF Head(s) = "-" /\ IsDigits(Tail(s), 10) THEN Num(-DigitsValue(Tail(s), 10))
    ELSE NaN

\* +digits.pop(): the popped item is undefined when the array is empty
UnaryPlusOfPopped(digits) ==
    IF digits = <<>> THEN NaN ELSE UnaryPlus(<<digits[Len(digits)]>>)

Popped(digits) == IF digits = <<>> THEN <<>> ELSE SubSeq(digits, 1, Len(digits) - 1)

\* parseInt(str, 26) of a one-character string
parseInt26(c) ==
    IF IsIn(c, DigitChars) THEN Num(IndexIn(c, DigitChars) - 1)
    ELSE IF IsIn(c, UpperChars) /\ IndexIn(c, UpperChars) <= 16
        THEN Num(IndexIn(c, UpperChars) + 9)
    ELSE NaN

RECURSIVE Repeat(_, _)
Repeat(c, n) == IF n <= 0 THEN <<>> ELSE <<c>> \o Repeat(c, n - 1)

\* Array(len).join(sep): Array raises a RangeError unless len is an integer
\* in 0 .. 2^32 - 1 (2^32 is 65536 * 65536); the join of len empty slots is
\* len - 1 separators.
ArrayJoin(len, sep) ==
    IF len.nan \/ len.v < 0 \/ len.v \div 65536 >= 65536 THEN Thrown("RangeError")
    ELSE Returned(Repeat(sep, len.v - 1))

(***************************************************************************)
(* Numeral formatter                                                       *)
(***************************************************************************)
NUMBER_STYLES == {"arabic", "alph", "Alph", "roman", "Roman"}

ROMAN == << <<>>, <<"C">>, <<"C","C">>, <<"C","C","C">>, <<"C","D">>, <<"D">>,
            <<"D","C">>, <<"D","C","C">>, <<"D","C","C","C">>, <<"C","M">>,
            <<>>, <<"X">>, <<"X","X">>, <<"X","X","X">>, <<"X","L">>, <<"L">>,
            <<"L","X">>, <<"L","X","X">>, <<"L","X","X","X">>, <<"X","C">>,
            <<>>, <<"I">>, <<"I","I">>, <<"I","I","I">>, <<"I","V">>, <<"V">>,
            <<"V","I">>, <<"V","I","I">>, <<"V","I","I","I">>, <<"I","X">> >>

\* RomanEntry with the row offset i * 10 forgotten
RomanEntry_NoRow(digit, i) ==
    IF digit.nan THEN <<>>
    ELSE IF digit.v \in 0..(Len(ROMAN) - 1) THEN ROMAN[digit.v + 1]
    ELSE <<>>

\* ROMAN[+digits.pop() + (i * 10)] ?? ""
RomanEntry(digit, i) ==
    IF digit.nan THEN <<>>
    ELSE IF digit.v + (i * 10) \in 0..(Len(ROMAN) - 1) THEN ROMAN[digit.v + (i * 10) + 1]
    ELSE <<>>

RECURSIVE RomanLoop(_, _, _)
\* let i = 3; while (i--) { roman = (ROMAN[...] ?? "") + roman; }
RomanLoop(digits, i, roman) ==
    IF i = 0 THEN [digits |-> digits, roman |-> roman]
    ELSE RomanLoop(Popped(digits), i - 1,
                   RomanEntry(UnaryPlusOfPopped(digits), i - 1) \o roman)

toRomanUpper(n) ==
    LET digits == NumberToString(n, 10)
        after == RomanLoop(digits, 3, <<>>)
        thousands == UnaryPlus(after.digits)
        len == IF thousands.nan THEN NaN ELSE Num(thousands.v + 1)
        ms == ArrayJoin(len, "M")
    IN  IF ms.kind # "string" THEN ms ELSE Returned(ms.str \o after.roman)

toRomanLower(n) ==
    LET upper == toRomanUpper(n)
    IN  IF upper.kind # "string" THEN upper ELSE Returned(toLowerCase(upper.str))

ALPH == UpperChars

\* str => ALPH[parseInt(str, 26)]; an undefined item joins as ""
AlphLetter(c) ==
    LET d == parseInt26(c)
    IN  IF d.nan \/ d.v >= Len(ALPH) THEN <<>> ELSE <<ALPH[d.v + 1]>>

toAlphUpper(n) ==
    LET chars == NumberToString(n - 1, 26)
    IN  Returned(Concat([i \in 1..Len(chars) |-> AlphLetter(chars[i])]))

toAlphLower(n) == Returned(toLowerCase(toAlphUpper(n).str))

CONVERTER(st, n) ==
    CASE st = "arabic" -> Returned(NumberToString(n, 10))
      [] st = "alph"   -> toAlphLower(n)
      [] st = "Alph"   -> toAlphUpper(n)
      [] st = "roman"  -> toRomanLower(n)
      [] st = "Roman"  -> toRomanUpper(n)

(***************************************************************************)
(* The numeral formatter as a state machine: a call with any number of the *)
(* range and any style, then its outcome.                                  *)
(***************************************************************************)
\* the numbers given to the converters: a range around zero and two
\* negative numbers of five digits
Numbers == ((-MaxNeg)..MaxNum) \cup {-10000, -12345}

NumeralInit ==
    /\ num \in Numbers
    /\ style \in NUMBER_STYLES
    /\ numeral = Pending

\* no converter call is in progress
NumeralIdle ==
    /\ num = 1
    /\ style = "arabic"
    /\ numeral = Pending

Convert ==
    /\ numeral = Pending
    /\ numeral' = CONVERTER(style, num)
    /\ UNCHANGED <<num, style>>
    /\ UNCHANGED <<prefixVars, resolveVars, formatVars, indexVars, vaultVars, childOfVars, modalVars, suggestVars>>

NumeralNext == Convert

(***************************************************************************)
(* Prefix inference                                                        *)
(***************************************************************************)
\* the characters of the model, in code-point order
CharOrder == <<"\t", " ", "-", ".">>
             \o <<"0", "1", "2", "3", "4", "5", "6", "7", "8", "9">>
             \o UpperChars \o <<"^", "_">> \o LowerChars

Code(c) == IndexIn(c, CharOrder)

\* the characters \s matches
WhiteSpace == {"\t", " "}

\* Array.prototype.slice(0, end) and String.prototype.slice(0, end)
Slice0(arr, end) ==
    LET to == IF end < 0 THEN (IF Len(arr) + end < 0 THEN 0 ELSE Len(arr) + end)
              ELSE IF end > Len(arr) THEN Len(arr) ELSE end
    IN  SubSeq(arr, 1, to)

RECURSIVE Join(_, _)
\* Array.prototype.join(sep)
Join(arr, sep) ==
    IF arr = <<>> THEN <<>>
    ELSE IF Len(arr) = 1 THEN arr[1]
    ELSE arr[1] \o sep \o Join(Tail(arr), sep)

\* String.prototype.endsWith
endsWith(s, suffix) ==
    /\ Len(suffix) <= Len(s)
    /\ SubSeq(s, Len(s) - Len(suffix) + 1, Len(s)) = suffix

\* FirstWhitespaceIndex with || in place of ??: an index of 0 counts as no match
FirstWhitespaceIndex_Or(s) ==
    IF \E i \in 2..Len(s) : s[i] \in WhiteSpace /\ s[1] \notin WhiteSpace
    THEN (CHOOSE i \in 2..Len(s) :
            /\ s[i] \in WhiteSpace
            /\ \A j \in 1..(i - 1) : s[j] \notin WhiteSpace) - 1
    ELSE Len(s)

\* source.match(/\s/)?.index ?? source.length
FirstWhitespaceIndex(s) ==
    IF \E i \in 1..Len(s) : s[i] \in WhiteSpace
    THEN (CHOOSE i \in 1..Len(s) :
            /\ s[i] \in WhiteSpace
            /\ \A j \in 1..(i - 1) : s[j] \notin WhiteSpace) - 1
    ELSE Len(s)

\* new RegExp(`[${parseSep}]`): a leading "^" negates the class, x-y between
\* two characters is a range of code points, any other character stands for
\* itself (the model has no backslash and no bracket).
ClassNegated(sep) == sep # <<>> /\ sep[1] = "^"

ClassBody(sep) == IF ClassNegated(sep) THEN Tail(sep) ELSE sep

RECURSIVE ClassOutOfOrder(_)
\* "Range out of order in character class": new RegExp raises a SyntaxError
ClassOutOfOrder(body) ==
    IF body = <<>> THEN FALSE
    ELSE IF Len(body) >= 3 /\ body[2] = "-"
        THEN Code(body[1]) > Code(body[3]) \/ ClassOutOfOrder(SubSeq(body, 4, Len(body)))
    ELSE ClassOutOfOrder(Tail(body))

RECURSIVE ClassHas(_, _)
ClassHas(body, c) ==
    IF body = <<>> THEN FALSE
    ELSE IF Len(body) >= 3 /\ body[2] = "-"
        THEN \/ Code(body[1]) <= Code(c) /\ Code(c) <= Code(body[3])
             \/ ClassHas(SubSeq(body, 4, Len(body)), c)
    ELSE body[1] = c \/ ClassHas(Tail(body), c)

ClassMatches(sep, c) ==
    IF ClassNegated(sep) THEN ~ClassHas(ClassBody(sep), c) ELSE ClassHas(ClassBody(sep), c)

RECURSIVE SplitFrom(_, _, _)
SplitFrom(s, sep, piece) ==
    IF s = <<>> THEN <<piece>>
    ELSE IF ClassMatches(sep, Head(s)) THEN <<piece>> \o SplitFrom(Tail(s), sep, <<>>)
    ELSE SplitFrom(Tail(s), sep, Append(piece, Head(s)))

\* head.split(new RegExp(`[${parseSep}]`))
split(head, sep) == SplitFrom(head, sep, <<>>)

\* label.match(/^[0-9]+$/)
MatchesArabic(label) ==
    /\ label # <<>>
    /\ \A i \in 1..Len(label) : Code("0") <= Code(label[i]) /\ Code(label[i]) <= Code("9")

\* the suffixes of s left after x{0,max} has matched
AfterUpTo(s, x, max) ==
    {SubSeq(s, k + 1, Len(s)) : k \in {k \in 0..max : k <= Len(s) /\ \A j \in 1..k : s[j] = x}}

StartsWith(s, p) == Len(p) <= Len(s) /\ SubSeq(s, 1, Len(p)) = p

\* the suffixes of s left after (nine|four|five?one{0,3}) has matched
AfterRomanGroup(s, nine, four, five, one) ==
    LET afterFive == {s} \cup (IF StartsWith(s, <<five>>) THEN {Tail(s)} ELSE {})
    IN  (IF StartsWith(s, nine) THEN {SubSeq(s, 3, Len(s))} ELSE {})
        \cup (IF StartsWith(s, four) THEN {SubSeq(s, 3, Len(s))} ELSE {})
        \cup UNION {AfterUpTo(t, one, 3) : t \in afterFive}

\* label.match(/^M{0,4}(CM|CD|D?C{0,3})(XC|XL|L?X{0,3})(IX|IV|V?I{0,3})$/i)
MatchesRoman(label) ==
    LET s == toUpperCase(label)
        m == AfterUpTo(s, "M", 4)
        c == UNION {AfterRomanGroup(t, <<"C", "M">>, <<"C", "D">>, "D", "C") : t \in m}
        x == UNION {AfterRomanGroup(t, <<"X", "C">>, <<"X", "L">>, "L", "X") : t \in c}
        i == UNION {AfterRomanGroup(t, <<"I", "X">>, <<"I", "V">>, "V", "I") : t \in x}
    IN  <<>> \in i

\* MatchesLetter with /^[a-z]+$/i: any word of letters
MatchesLetter_Word(label) ==
    /\ label # <<>>
    /\ \A k \in 1..Len(label) : IsIn(label[k], LowerChars) \/ IsIn(label[k], UpperChars)

\* label.match(/^[a-z]$/i)
MatchesLetter(label) ==
    /\ Len(label) = 1
    /\ IsIn(label[1], LowerChars) \/ IsIn(label[1], UpperChars)

isValidLabel(label) == MatchesArabic(label) \/ MatchesRoman(label) \/ MatchesLetter(label)

\* labels.filter((label) => label)
blankRemoved(ls) == SelectSeq(ls, LAMBDA label : label # <<>>)

areValidLabels(ls) ==
    IF Len(blankRemoved(ls)) >= 2
    THEN \A k \in 1..Len(blankRemoved(ls)) : isValidLabel(blankRemoved(ls)[k])
    ELSE IF Len(blankRemoved(ls)) = 1
    THEN Len(ls) = 2 /\ isValidLabel(ls[1])
    ELSE FALSE

\* const head = source.slice(0, source.match(/\s/)?.index ?? source.length)
InferHead(src) == Slice0(src, FirstWhitespaceIndex(src))

\* const labels = head.split(new RegExp(`[${parseSep}]`))
InferLabels(src, sep) == split(InferHead(src), sep)

\* InferPrefix with the labels joined but printSep never appended
InferPrefix_NoAppend(ls, psep, n) == Join(Slice0(ls, n), psep)

\* the prefix built from valid labels
InferPrefix(ls, psep, n) ==
    LET usedLabels == Slice0(ls, n)
        joined == Join(usedLabels, psep)
    IN  IF ~endsWith(joined, psep) THEN joined \o psep ELSE joined

inferNumberPrefix(src, sep, psep, n) ==
    IF ClassOutOfOrder(ClassBody(sep)) THEN Thrown("SyntaxError")
    ELSE IF areValidLabels(InferLabels(src, sep))
        THEN Returned(InferPrefix(InferLabels(src, sep), psep, n))
    ELSE Undefined

(***************************************************************************)
(* Prefix inference as a state machine: a call with any source of the      *)
(* bounded set and any of the separator settings, then its outcome.        *)
(***************************************************************************)
\* a digit, two Roman letters of different case, a letter that is no Roman
\* numeral, two separators and a whitespace character
SourceChars == {"1", "i", "V", "b", ".", "-", " "}

StringsUpTo(chars, n) == UNION {[1..k -> chars] : k \in 0..n}

\* the sources named by the specification
ExampleSources ==
    { <<"1", "-", "2", ".", "A", " ", "f", "o", "o">>,
      <<"A", " ", "n", "o", "t", "e", " ", "a", "b", "o", "u", "t", " ",
        "c", "a", "l", "c", "u", "l", "u", "s">>,
      <<"A", ".", " ", "n", "o", "t", "e">>,
      <<".", "A">> }

Sources == StringsUpTo(SourceChars, MaxLen) \cup ExampleSources

ParseSeps == { <<".">>, <<"-", ".">>, <<" ", ".">>, <<".", "-", "_">>, <<"_", "-", ".">> }

PrintSeps == { <<".">>, <<"-">>, <<>> }

PrefixInit ==
    /\ source \in Sources
    /\ parseSep \in ParseSeps
    /\ printSep \in PrintSeps
    /\ useFirstN \in 0..MaxUseFirstN
    /\ labels = <<>>
    /\ prefix = Pending

\* no inferNumberPrefix call is in progress
PrefixIdle ==
    /\ source = <<>>
    /\ parseSep = <<>>
    /\ printSep = <<>>
    /\ useFirstN = 0
    /\ labels = <<>>
    /\ prefix = Pending

Infer ==
    /\ prefix = Pending
    /\ prefix' = inferNumberPrefix(source, parseSep, printSep, useFirstN)
    /\ labels' = IF ClassOutOfOrder(ClassBody(parseSep)) THEN labels
                 ELSE InferLabels(source, parseSep)
    /\ UNCHANGED <<source, parseSep, printSep, useFirstN>>
    /\ UNCHANGED <<numeralVars, resolveVars, formatVars, indexVars, vaultVars, childOfVars, modalVars, suggestVars>>

PrefixNext == Infer

(***************************************************************************)
(* Settings resolver                                                       *)
(*                                                                         *)
(* A JavaScript object is the record of its own properties that hold a     *)
(* value (def) and the set of its own keys that hold undefined (undef).    *)
(***************************************************************************)
Object(def, undef) == [def |-> def, undef |-> undef]

EmptyObject == Object(<<>>, {})

OwnKeys(obj) == DOMAIN obj.def \cup obj.undef

\* an argument that is an object or undefined
Given(obj) == [given |-> TRUE, obj |-> obj]
NotGiven == [given |-> FALSE, obj |-> EmptyObject]

\* Object.assign(target, src): every own property of src is copied, one that
\* holds undefined included; an undefined src is skipped
ObjectAssign(target, src) ==
    IF ~src.given THEN target
    ELSE Object([k \in (DOMAIN target.def \ src.obj.undef) \cup DOMAIN src.obj.def |->
                    IF k \in DOMAIN src.obj.def THEN src.obj.def[k] ELSE target.def[k]],
                (target.undef \ DOMAIN src.obj.def) \cup src.obj.undef)

DEFAULT_SETTINGS ==
    Object([lang |-> "DEFAULT_LANG",
            titleSuffix |-> <<".">>,
            numberPrefix |-> <<>>,
            numberSuffix |-> <<>>,
            numberInit |-> 1,
            numberStyle |-> "arabic",
            numberDefault |-> <<"a", "u", "t", "o">>,
            refFormat |-> "Type + number (+ title)",
            noteMathLinkFormat |-> "Type + number (+ title)",
            eqNumberPrefix |-> <<>>,
            eqNumberSuffix |-> <<>>,
            eqNumberInit |-> 1,
            eqNumberStyle |-> "arabic",
            eqRefPrefix |-> <<>>,
            eqRefSuffix |-> <<>>,
            labelPrefix |-> <<>>,
            rename |-> EmptyObject,
            lineByLine |-> TRUE,
            mathCalloutStyle |-> "framed",
            mathCalloutFontInherit |-> FALSE,
            mainMathCallout |-> "None"],
           {})

\* the fields of MathContextSettings
MathContextSettings ==
    {"lang", "titleSuffix", "numberPrefix", "numberSuffix", "numberInit", "numberStyle",
     "numberDefault", "refFormat", "noteMathLinkFormat", "eqNumberPrefix",
     "eqNumberSuffix", "eqNumberInit", "eqNumberStyle", "eqRefPrefix", "eqRefSuffix",
     "labelPrefix", "rename", "lineByLine", "mathCalloutStyle",
     "mathCalloutFontInherit", "mainMathCallout"}

\* The vault: node 0 is the root folder, node n + 1 is the child of node n,
\* the deepest node is a note and the others are folders.
Nodes == 0..MaxDepth

\* file.parent of the root folder
NoParent == -1

Parent(file) == IF file = 0 THEN NoParent ELSE file - 1

isRoot(file) == file = 0

IsTFolder(file) == file < MaxDepth

\* file.path: "/" for the root, else the names from the root joined by "/"
PathOf(file) ==
    IF file = 0 THEN <<"/">>
    ELSE Join([i \in 1..file |-> <<"d">> \o NatToString(i, 10)], <<"/">>)

RECURSIVE AncestorsLoop(_, _, _)
\* while (ancestor) { ancestors.push(ancestor); if (...) break; ancestor = ancestor.parent; }
AncestorsLoop(file, ancestor, pushed) ==
    IF ancestor = NoParent THEN pushed
    ELSE IF IsTFolder(file) /\ isRoot(file) THEN Append(pushed, ancestor)
    ELSE AncestorsLoop(file, Parent(ancestor), Append(pushed, ancestor))

\* Array.prototype.reverse
reverse(arr) == [i \in 1..Len(arr) |-> arr[Len(arr) + 1 - i]]

\* getAncestors without ancestors.reverse(): the file first, the root last
getAncestors_NoReverse(file) == AncestorsLoop(file, file, <<>>)

getAncestors(file) == reverse(AncestorsLoop(file, file, <<>>))

\* plugin.settings[ancestor.path]
SettingsAt(store, path) == IF path \in DOMAIN store THEN Given(store[path]) ELSE NotGiven

RECURSIVE AssignAncestors(_, _, _)
\* for (const ancestor of ancestors) Object.assign(resolvedSettings, plugin.settings[ancestor.path])
AssignAncestors(acc, chain, store) ==
    IF chain = <<>> THEN acc
    ELSE AssignAncestors(ObjectAssign(acc, SettingsAt(store, PathOf(Head(chain)))),
                         Tail(chain), store)

\* resolveSettings without its last Object.assign(resolvedSettings, settings)
resolveSettings_NoLocal(local, store, file) ==
    AssignAncestors(ObjectAssign(EmptyObject, Given(DEFAULT_SETTINGS)),
                    getAncestors(file), store)

resolveSettings(local, store, file) ==
    ObjectAssign(
        AssignAncestors(ObjectAssign(EmptyObject, Given(DEFAULT_SETTINGS)),
                        getAncestors(file), store),
        local)

(***************************************************************************)
(* The resolver as a state machine: a per-path store over the vault, local *)
(* overrides, a file, then the resolved object.                            *)
(***************************************************************************)
\* the fields the stored and local records of the model override
OverriddenFields == {"numberInit", "titleSuffix"}

\* the value a record of layer k (a node, or MaxDepth + 1 for the local
\* overrides) gives to a field: different on every layer
LayerValue(field, k) ==
    IF field = "numberInit" THEN k + 2 ELSE Repeat("!", k + 1)

\* the shape of a record: each overridden field is missing (in neither set),
\* holds a value (has) or holds undefined (undef)
Shapes ==
    {sh \in [has : SUBSET OverriddenFields, undef : SUBSET OverriddenFields] :
        sh.has \cap sh.undef = {}}

\* the record of layer k of a shape
LayerObject(sh, k) == Object([f \in sh.has |-> LayerValue(f, k)], sh.undef)

\* local overrides of a shape: the settings of a theorem callout (type,
\* number, setAsNoteMathLink) with the overridden fields of the shape
LocalSettings(sh) ==
    Object([f \in sh.has \cup {"type", "number", "setAsNoteMathLink"} |->
               CASE f = "type" -> "theorem"
                 [] f = "number" -> <<"a", "u", "t", "o">>
                 [] f = "setAsNoteMathLink" -> FALSE
                 [] OTHER -> LayerValue(f, MaxDepth + 1)],
           sh.undef)

\* the store in which the nodes of with have a record, of the shape given
StoreOf(with, shape) ==
    [p \in {PathOf(n) : n \in with} |->
        LET n == CHOOSE n \in with : PathOf(n) = p IN LayerObject(shape[n], n)]

ResolvePending == [kind |-> "pending", obj |-> EmptyObject]

\* A reference to an object: the global DEFAULT_SETTINGS, the record the store
\* holds for a path, the local overrides, or the n-th object a call created.
Ref(kind, path) == [kind |-> kind, path |-> path]

DefaultsRef == Ref("DEFAULT_SETTINGS", <<>>)

StoreRef(path) == Ref("plugin.settings", path)

LocalRef == Ref("settings", <<>>)

NewRef(n) == Ref("new", NatToString(n, 10))

NoRef == Ref("none", <<>>)

\* the objects that exist before the first call, by reference
HeapOf(store, local) ==
    [r \in {DefaultsRef} \cup {StoreRef(p) : p \in DOMAIN store}
            \cup (IF local.given THEN {LocalRef} ELSE {}) |->
        IF r = DefaultsRef THEN DEFAULT_SETTINGS
        ELSE IF r = LocalRef THEN local.obj
        ELSE store[r.path]]

\* the objects the calls made so far created
Created(h) == {r \in DOMAIN h : r.kind = "new"}

\* Object.assign(DEFAULT_SETTINGS, ...): the global record as the target
resolveTarget_Defaults(h) == DefaultsRef

\* Object.assign({}, DEFAULT_SETTINGS): the target is a new object
resolveTarget(h) == NewRef(Cardinality(Created(h)) + 1)

\* the heap after every Object.assign of resolveSettings has written target
Assigned(h, target, obj) ==
    [r \in DOMAIN h \cup {target} |-> IF r = target THEN obj ELSE h[r]]

ResolveInit ==
    /\ \E with \in SUBSET Nodes : \E shape \in [with -> Shapes] :
          pluginSettings = StoreOf(with, shape)
    /\ currentFile \in Nodes
    /\ settings \in {NotGiven} \cup {Given(LocalSettings(sh)) : sh \in Shapes}
    /\ ancestors = <<>>
    /\ resolvedSettings = ResolvePending
    /\ heap = HeapOf(pluginSettings, settings)
    /\ resolvedRef = NoRef
    /\ pendingCalls = 1

\* the same store resolved several times: every record of the store has the
\* same shape
ResolveAgainInit ==
    /\ \E with \in SUBSET Nodes : \E sh \in Shapes :
          pluginSettings = StoreOf(with, [n \in with |-> sh])
    /\ currentFile \in Nodes
    /\ settings \in {NotGiven} \cup {Given(LocalSettings(sh)) : sh \in Shapes}
    /\ ancestors = <<>>
    /\ resolvedSettings = ResolvePending
    /\ heap = HeapOf(pluginSettings, settings)
    /\ resolvedRef = NoRef
    /\ pendingCalls = MaxCalls

\* no resolveSettings call is in progress
ResolveIdle ==
    /\ pluginSettings = <<>>
    /\ currentFile = 0
    /\ settings = NotGiven
    /\ ancestors = <<>>
    /\ resolvedSettings = ResolvePending
    /\ heap = HeapOf(pluginSettings, settings)
    /\ resolvedRef = NoRef
    /\ pendingCalls = 0

\* One call of resolveSettings(settings, plugin, currentFile). The store and
\* the local overrides are read through their references after the call.
Resolve ==
    /\ pendingCalls > 0
    /\ pendingCalls' = pendingCalls - 1
    /\ ancestors' = getAncestors(currentFile)
    /\ LET target == resolveTarget(heap)
           written == Assigned(heap, target,
                               resolveSettings(settings, pluginSettings, currentFile))
       IN /\ heap' = written
          /\ resolvedRef' = target
          /\ resolvedSettings' = [kind |-> "object", obj |-> written[target]]
          /\ pluginSettings' = [p \in DOMAIN pluginSettings |-> written[StoreRef(p)]]
          /\ settings' = IF settings.given THEN Given(written[LocalRef]) ELSE NotGiven
    /\ UNCHANGED currentFile
    /\ UNCHANGED <<numeralVars, prefixVars, formatVars, indexVars, vaultVars, childOfVars, modalVars, suggestVars>>

ResolveNext == Resolve

(***************************************************************************)
(* Title, number prefix and label formatter                                *)
(***************************************************************************)
\* The value of a frontmatter property: a string, a number or undefined.
StringValue(s) == [kind |-> "string", str |-> s, num |-> 0]
NumberValue(n) == [kind |-> "number", str |-> <<>>, num |-> n]
UndefinedValue == [kind |-> "undefined", str |-> <<>>, num |-> 0]

\* the truthiness of a value: "", 0 and undefined are falsy
Truthy(v) ==
    CASE v.kind = "string" -> v.str # <<>>
      [] v.kind = "number" -> v.num # 0
      [] OTHER -> FALSE

\* obj[key] !== undefined
Defined(obj, key) == key \in DOMAIN obj.def

\* TruthyString with obj[key] !== undefined in place of the truthiness: ""
\* counts as a value
TruthyString_Defined(obj, key) == Defined(obj, key)

\* the truthiness of obj[key], a string when it is defined
TruthyString(obj, key) == Defined(obj, key) /\ obj.def[key] # <<>>

\* A note: file.basename and what the metadata cache holds for it, the
\* frontmatter (property name -> value) and the links of the frontmatter.
File(basename, frontmatter, frontmatterLinks) ==
    [basename |-> basename, frontmatter |-> frontmatter,
     frontmatterLinks |-> frontmatterLinks]

\* app.metadataCache.getFileCache(file)?.frontmatter?.[name]
getProperty(f, name) ==
    IF name \in DOMAIN f.frontmatter THEN f.frontmatter[name] ELSE UndefinedValue

\* the first link of cache.frontmatterLinks whose key is name
getPropertyLink(f, name) ==
    LET found == {i \in 1..Len(f.frontmatterLinks) : f.frontmatterLinks[i].key = name}
    IN  IF found = {} THEN UndefinedValue
        ELSE StringValue(f.frontmatterLinks[CHOOSE i \in found :
                                               \A j \in found : i <= j].link)

\* getPropertyLink(app, file, name)?.link ?? getProperty(app, file, name)
getPropertyOrLinkTextInProperty(f, name) ==
    IF getPropertyLink(f, name).kind # "undefined" THEN getPropertyLink(f, name)
    ELSE getProperty(f, name)

\* inferNumberPrefix(source, ...) ?? "" for a truthy source: a number has no
\* slice method, so the first line of inferNumberPrefix raises a TypeError
InferOrEmpty(src, sep, psep, n) ==
    IF src.kind = "number" THEN Thrown("TypeError")
    ELSE IF inferNumberPrefix(src.str, sep, psep, n).kind = "undefined" THEN Returned(<<>>)
    ELSE inferNumberPrefix(src.str, sep, psep, n)

getNumberPrefix(f, obj) ==
    LET s == obj.def
        src == IF s.inferNumberPrefixFromProperty # <<>>
               THEN getPropertyOrLinkTextInProperty(f, s.inferNumberPrefixFromProperty)
               ELSE StringValue(f.basename)
    IN  IF s.numberPrefix # <<>> THEN Returned(s.numberPrefix)
        ELSE IF s.inferNumberPrefix /\ Truthy(src)
            THEN InferOrEmpty(src, s.inferNumberPrefixParseSep,
                              s.inferNumberPrefixPrintSep, s.inferNumberPrefixUseFirstN)
        ELSE Returned(<<>>)

\* getEqNumberPrefix gated by inferNumberPrefix, the flag of the callouts
getEqNumberPrefix_CalloutFlag(f, obj) ==
    LET s == obj.def
        src == IF s.inferEqNumberPrefixFromProperty # <<>>
               THEN getPropertyOrLinkTextInProperty(f, s.inferEqNumberPrefixFromProperty)
               ELSE StringValue(f.basename)
    IN  IF s.eqNumberPrefix # <<>> THEN Returned(s.eqNumberPrefix)
        ELSE IF s.inferNumberPrefix /\ Truthy(src)
            THEN InferOrEmpty(src, s.inferEqNumberPrefixParseSep,
                              s.inferEqNumberPrefixPrintSep, s.inferEqNumberPrefixUseFirstN)
        ELSE Returned(<<>>)

getEqNumberPrefix(f, obj) ==
    LET s == obj.def
        src == IF s.inferEqNumberPrefixFromProperty # <<>>
               THEN getPropertyOrLinkTextInProperty(f, s.inferEqNumberPrefixFromProperty)
               ELSE StringValue(f.basename)
    IN  IF s.eqNumberPrefix # <<>> THEN Returned(s.eqNumberPrefix)
        ELSE IF s.inferEqNumberPrefix /\ Truthy(src)
            THEN InferOrEmpty(src, s.inferEqNumberPrefixParseSep,
                              s.inferEqNumberPrefixPrintSep, s.inferEqNumberPrefixUseFirstN)
        ELSE Returned(<<>>)

\* plugin.extraSettings.profiles: profile id -> environment id -> display name
Profiles ==
    [English |-> [body |-> [theorem |->
        [thm |-> <<"T", "h", "e", "o", "r", "e", "m">>,
         def |-> <<"D", "e", "f", "i", "n", "i", "t", "i", "o", "n">>]]]]

\* THEOREM_LIKE_ENVs: environment id -> the prefix token of its labels
THEOREM_LIKE_ENVs ==
    [thm |-> [prefix |-> <<"t", "h", "m">>],
     def |-> [prefix |-> <<"d", "e", "f">>]]

\* the environment ids (TheoremLikeEnvID)
TheoremLikeEnvIDs == DOMAIN THEOREM_LIKE_ENVs

formatTheoremCalloutType(obj) ==
    Profiles[obj.def.profile].body.theorem[obj.def.type]

\* the literal 'auto'
Auto == <<"a", "u", "t", "o">>

\* the branch of formatTitleWithoutSubtitle that numbers the callout is taken
NumberedAuto(obj) ==
    /\ TruthyString(obj, "number")
    /\ obj.def.number = Auto
    /\ Defined(obj, "_index")

\* settings.numberInit ?? 1
NumberInitOr1(obj) == IF Defined(obj, "numberInit") THEN obj.def.numberInit ELSE 1

\* settings.numberStyle ?? DEFAULT_SETTINGS.numberStyle
NumberStyleOrDefault(obj) ==
    IF Defined(obj, "numberStyle") THEN obj.def.numberStyle
    ELSE DEFAULT_SETTINGS.def.numberStyle

\* settings.numberInit = settings.numberInit ?? 1: the object that was passed
\* is written to
SettingsAfterFormat(obj) ==
    IF NumberedAuto(obj)
    THEN Object([k \in DOMAIN obj.def \cup {"numberInit"} |->
                    IF k = "numberInit" THEN NumberInitOr1(obj) ELSE obj.def[k]],
                obj.undef \ {"numberInit"})
    ELSE obj

\* formatTitleWithoutSubtitle with if (settings._index) in place of the comparison with
\* undefined: the first callout of a type gets no number
formatTitleWithoutSubtitle_Falsy0(f, obj) ==
    LET title0 == formatTheoremCalloutType(obj)
        sum == obj.def._index + NumberInitOr1(obj)
        p == getNumberPrefix(f, obj)
        c == CONVERTER(NumberStyleOrDefault(obj), sum)
    IN  IF NumberedAuto(obj) /\ obj.def._index # 0
        THEN (IF p.kind # "string" THEN p
              ELSE IF c.kind # "string" THEN c
              ELSE Returned(title0 \o <<" ">> \o p.str \o c.str \o obj.def.numberSuffix))
        ELSE IF TruthyString(obj, "number") /\ obj.def.number # Auto
        THEN Returned(title0 \o <<" ">> \o obj.def.number)
        ELSE Returned(title0)

\* formatTitleWithoutSubtitle with the else of line 670 bound to the inner if:
\* 'auto' itself is appended when there is no _index
formatTitleWithoutSubtitle_InnerElse(f, obj) ==
    LET title0 == formatTheoremCalloutType(obj)
        sum == obj.def._index + NumberInitOr1(obj)
        p == getNumberPrefix(f, obj)
        c == CONVERTER(NumberStyleOrDefault(obj), sum)
    IN  IF NumberedAuto(obj)
        THEN (IF p.kind # "string" THEN p
              ELSE IF c.kind # "string" THEN c
              ELSE Returned(title0 \o <<" ">> \o p.str \o c.str \o obj.def.numberSuffix))
        ELSE IF TruthyString(obj, "number")
        THEN Returned(title0 \o <<" ">> \o obj.def.number)
        ELSE Returned(title0)

\* the template literal `${title} ${prefix}${numeral}${suffix}`: it evaluates
\* getNumberPrefix, then the converter, and an exception of either leaves it
NumberedTitle(title0, p, c, suffix) ==
    IF p.kind # "string" THEN p
    ELSE IF c.kind # "string" THEN c
    ELSE Returned(title0 \o <<" ">> \o p.str \o c.str \o suffix)

formatTitleWithoutSubtitle(f, obj) ==
    IF NumberedAuto(obj)
    THEN NumberedTitle(formatTheoremCalloutType(obj),
                       getNumberPrefix(f, obj),
                       CONVERTER(NumberStyleOrDefault(obj),
                                 obj.def._index + NumberInitOr1(obj)),
                       obj.def.numberSuffix)
    ELSE IF TruthyString(obj, "number") /\ obj.def.number # Auto
    THEN Returned(formatTheoremCalloutType(obj) \o <<" ">> \o obj.def.number)
    ELSE Returned(formatTheoremCalloutType(obj))

\* formatTitle with the titleSuffix appended whatever noTitleSuffix is
formatTitle_AlwaysSuffix(f, obj, noSuffix) ==
    LET head == formatTitleWithoutSubtitle(f, obj)
        withTitle == IF TruthyString(obj, "title")
                     THEN head.str \o <<" ", "(">> \o obj.def.title \o <<")">>
                     ELSE head.str
    IN  IF head.kind # "string" THEN head
        ELSE IF TruthyString(obj, "titleSuffix")
        THEN Returned(withTitle \o obj.def.titleSuffix)
        ELSE Returned(withTitle)

\* the title with " (title)" and the titleSuffix appended; an exception of
\* formatTitleWithoutSubtitle leaves formatTitle
Subtitled(head, obj, noSuffix) ==
    IF head.kind # "string" THEN head
    ELSE Returned(head.str
                  \o (IF TruthyString(obj, "title")
                      THEN <<" ", "(">> \o obj.def.title \o <<")">> ELSE <<>>)
                  \o (IF ~noSuffix /\ TruthyString(obj, "titleSuffix")
                      THEN obj.def.titleSuffix ELSE <<>>))

formatTitle(f, obj, noSuffix) ==
    Subtitled(formatTitleWithoutSubtitle(f, obj), obj, noSuffix)

\* formatLabel with the label alone, without labelPrefix and the prefix token
formatLabel_Bare(obj) ==
    IF TruthyString(obj, "label") THEN Returned(obj.def.label) ELSE Undefined

formatLabel(obj) ==
    IF TruthyString(obj, "label")
    THEN Returned(obj.def.labelPrefix \o THEOREM_LIKE_ENVs[obj.def.type].prefix
                  \o <<":">> \o obj.def.label)
    ELSE Undefined

(***************************************************************************)
(* The formatter as a state machine: a settings object and a note, then    *)
(* the outcome of the function called on them.                             *)
(***************************************************************************)
\* the properties of a and of b, those of b over those of a
Merge(a, b) ==
    [k \in DOMAIN a \cup DOMAIN b |-> IF k \in DOMAIN b THEN b[k] ELSE a[k]]

RECURSIVE MergeAll(_)
MergeAll(records) ==
    IF records = <<>> THEN <<>> ELSE Merge(Head(records), MergeAll(Tail(records)))

\* an optional property: missing, or holding one of the values
Optional(key, values) == {<<>>} \cup {[k \in {key} |-> v] : v \in values}

\* the settings getNumberPrefix reads
PrefixSettings(explicit, infer, fromProperty, sep, psep, n) ==
    [numberPrefix |-> explicit,
     inferNumberPrefix |-> infer,
     inferNumberPrefixFromProperty |-> fromProperty,
     inferNumberPrefixParseSep |-> sep,
     inferNumberPrefixPrintSep |-> psep,
     inferNumberPrefixUseFirstN |-> n]

\* the settings getEqNumberPrefix reads
EqPrefixSettings(explicit, infer, fromProperty, sep, psep, n) ==
    [eqNumberPrefix |-> explicit,
     inferEqNumberPrefix |-> infer,
     inferEqNumberPrefixFromProperty |-> fromProperty,
     inferEqNumberPrefixParseSep |-> sep,
     inferEqNumberPrefixPrintSep |-> psep,
     inferEqNumberPrefixUseFirstN |-> n]

\* the name of a frontmatter property
Chapter == <<"c", "h">>

\* a parseSep whose range is out of order
BadParseSep == <<"_", "-", ".">>

\* the note "1.2 b" without frontmatter
PlainNote == File(<<"1", ".", "2", " ", "b">>, <<>>, <<>>)

\* an explicit prefix, no inference, inference from the base name, and
\* inference with a parseSep that is no character class
TitlePrefixSettings ==
    {PrefixSettings(<<"P">>, TRUE, <<>>, <<".">>, <<".">>, 1),
     PrefixSettings(<<>>, FALSE, <<>>, <<".">>, <<".">>, 1),
     PrefixSettings(<<>>, TRUE, <<>>, <<".">>, <<".">>, 1),
     PrefixSettings(<<>>, TRUE, <<>>, BadParseSep, <<".">>, 1)}

TitleInit ==
    /\ \E type \in TheoremLikeEnvIDs :
       \E numberSuffix \in {<<>>, <<")">>} :
       \E titleSuffix \in {<<>>, <<".">>} :
       \E number \in Optional("number", {<<>>, Auto, <<"2", "a">>}) :
       \E index \in Optional("_index", 0..MaxIndex) :
       \E numberInit \in Optional("numberInit", {1, 26, -100}) :
       \E numberStyle \in Optional("numberStyle", NUMBER_STYLES) :
       \E customTitle \in Optional("title", {<<>>, <<"M">>}) :
       \E ps \in TitlePrefixSettings :
          titleSettings =
             Object(MergeAll(<< [profile |-> "English", type |-> type,
                                 numberSuffix |-> numberSuffix,
                                 titleSuffix |-> titleSuffix],
                                number, index, numberInit, numberStyle, customTitle, ps >>),
                    {})
    /\ note = PlainNote
    /\ noTitleSuffix \in BOOLEAN
    /\ title = Pending
    /\ numberPrefix = Pending
    /\ eqNumberPrefix = Pending
    /\ formattedLabel = Pending

\* the values of the frontmatter property "ch": none, "", "3.1", 3 and 0
Frontmatters ==
    {<<>>} \cup {[k \in {Chapter} |-> v] :
                    v \in {StringValue(<<>>), StringValue(<<"3", ".", "1">>),
                           NumberValue(3), NumberValue(0)}}

\* no link in the frontmatter, or the link "2.b" in the property "ch"
FrontmatterLinks == {<<>>, << [key |-> Chapter, link |-> <<"2", ".", "b">>] >>}

Notes ==
    {File(basename, frontmatter, links) :
        basename \in {<<>>, <<"b">>, <<"1", ".", "2", " ", "b">>},
        frontmatter \in Frontmatters,
        links \in FrontmatterLinks}

NumberPrefixInit ==
    /\ \E explicit, eqExplicit \in {<<>>, <<"P">>} :
       \E infer, eqInfer \in BOOLEAN :
       \E fromProperty, eqFromProperty \in {<<>>, Chapter} :
       \E sep, eqSep \in {<<".">>, BadParseSep} :
       \E n, eqN \in {1, 2} :
          titleSettings =
             Object(Merge(PrefixSettings(explicit, infer, fromProperty, sep, <<".">>, n),
                          EqPrefixSettings(eqExplicit, eqInfer, eqFromProperty, eqSep,
                                           <<".">>, eqN)),
                    {})
    /\ note \in Notes
    /\ noTitleSuffix = FALSE
    /\ title = Pending
    /\ numberPrefix = Pending
    /\ eqNumberPrefix = Pending
    /\ formattedLabel = Pending

LabelInit ==
    /\ \E type \in TheoremLikeEnvIDs :
       \E labelPrefix \in StringsUpTo({"p", ":"}, 1) :
       \E customLabel \in Optional("label", StringsUpTo({"a", "1", "-"}, 2)) :
          titleSettings =
             Object(Merge([type |-> type, labelPrefix |-> labelPrefix], customLabel), {})
    /\ note = PlainNote
    /\ noTitleSuffix = FALSE
    /\ title = Pending
    /\ numberPrefix = Pending
    /\ eqNumberPrefix = Pending
    /\ formattedLabel = Pending

\* no formatter call is in progress
FormatIdle ==
    /\ titleSettings = EmptyObject
    /\ note = File(<<>>, <<>>, <<>>)
    /\ noTitleSuffix = FALSE
    /\ title = Pending
    /\ numberPrefix = Pending
    /\ eqNumberPrefix = Pending
    /\ formattedLabel = Pending

\* formatTitle(plugin, file, settings, noTitleSuffix)
FormatTitle ==
    /\ title = Pending
    /\ title' = formatTitle(note, titleSettings, noTitleSuffix)
    /\ titleSettings' = SettingsAfterFormat(titleSettings)
    /\ UNCHANGED <<note, noTitleSuffix, numberPrefix, eqNumberPrefix, formattedLabel>>
    /\ UNCHANGED <<numeralVars, prefixVars, resolveVars, indexVars, vaultVars, childOfVars, modalVars, suggestVars>>

\* getNumberPrefix(app, file, settings)
GetNumberPrefix ==
    /\ numberPrefix = Pending
    /\ numberPrefix' = getNumberPrefix(note, titleSettings)
    /\ UNCHANGED <<titleSettings, note, noTitleSuffix, title, eqNumberPrefix, formattedLabel>>
    /\ UNCHANGED <<numeralVars, prefixVars, resolveVars, indexVars, vaultVars, childOfVars, modalVars, suggestVars>>

\* getEqNumberPrefix(app, file, settings)
GetEqNumberPrefix ==
    /\ eqNumberPrefix = Pending
    /\ eqNumberPrefix' = getEqNumberPrefix(note, titleSettings)
    /\ UNCHANGED <<titleSettings, note, noTitleSuffix, title, numberPrefix, formattedLabel>>
    /\ UNCHANGED <<numeralVars, prefixVars, resolveVars, indexVars, vaultVars, childOfVars, modalVars, suggestVars>>

\* formatLabel(settings)
FormatLabel ==
    /\ formattedLabel = Pending
    /\ formattedLabel' = formatLabel(titleSettings)
    /\ UNCHANGED <<titleSettings, note, noTitleSuffix, title, numberPrefix, eqNumberPrefix>>
    /\ UNCHANGED <<numeralVars, prefixVars, resolveVars, indexVars, vaultVars, childOfVars, modalVars, suggestVars>>

TitleNext == FormatTitle

NumberPrefixNext == GetNumberPrefix \/ GetEqNumberPrefix

LabelNext == FormatLabel

(***************************************************************************)
(* The theorem callout reader, and the scan of a note into its index.      *)
(* A header line is held by what THEOREM_CALLOUT_PATTERN sees of it: the   *)
(* line is empty, a line the pattern does not match, or                    *)
(* "> [!math|<blob>]<rest>" with the name of its blob and its rest.        *)
(***************************************************************************)
Line(kind, blob, rest) == [kind |-> kind, blob |-> blob, rest |-> rest]

NoMatch == [matched |-> FALSE, blob |-> "", rest |-> <<>>]

\* if (line) return THEOREM_CALLOUT_PATTERN.exec(line): groups 1 and 2 of
\* /\> *\[\! *math *\|(.*?)\](.*)/, or null
matchTheoremCallout(line) ==
    IF line.kind = "empty" THEN NoMatch
    ELSE IF line.kind = "math"
    THEN [matched |-> TRUE, blob |-> line.blob, rest |-> line.rest]
    ELSE NoMatch

\* the JSON texts of the model, by name, and the values they parse to; any
\* other blob, such as {type: thm, is no JSON text
JSONTexts ==
    [thmAuto |-> Object([type |-> "thm", number |-> Auto], {}),
     defAuto |-> Object([type |-> "def", number |-> Auto], {}),
     thmLiteral |-> Object([type |-> "thm", number |-> <<"2", "a">>], {})]

\* JSON.parse(text)
JSONParse(text) ==
    IF text \in DOMAIN JSONTexts
    THEN [kind |-> "object", obj |-> JSONTexts[text], title |-> <<>>]
    ELSE [kind |-> "SyntaxError", obj |-> EmptyObject, title |-> <<>>]

RECURSIVE trimStart(_)
trimStart(s) ==
    IF s # <<>> /\ Head(s) \in WhiteSpace THEN trimStart(Tail(s)) ELSE s

\* String.prototype.trim
trim(s) == reverse(trimStart(reverse(trimStart(s))))

\* { settings, title } of a matching line, undefined of any other line; the
\* SyntaxError of JSON.parse leaves the function
readTheoremCalloutSettingsAndTitle(line) ==
    LET matchResult == matchTheoremCallout(line)
        parsed == JSONParse(matchResult.blob)
    IN  IF matchResult.matched
        THEN (IF parsed.kind # "object" THEN parsed
              ELSE [kind |-> "object", obj |-> parsed.obj, title |-> trim(matchResult.rest)])
        ELSE [kind |-> "undefined", obj |-> EmptyObject, title |-> <<>>]

\* result.settings, undefined when there is no result
readTheoremCalloutSettings(line) ==
    LET result == readTheoremCalloutSettingsAndTitle(line)
    IN  IF result.kind = "object" THEN [kind |-> "object", obj |-> result.obj]
        ELSE [kind |-> result.kind, obj |-> EmptyObject]

\* result.title, undefined when there is no result
readTheoremCalloutTitle(line) ==
    LET result == readTheoremCalloutSettingsAndTitle(line)
    IN  IF result.kind = "object" THEN Returned(result.title)
        ELSE IF result.kind = "undefined" THEN Undefined
        ELSE Thrown(result.kind)

\* the scanned note is the note of the vault; its file is PlainNote
ScannedNote == MaxDepth

\* the store of the scan: the root folder holds the profile and a number
\* prefix that is not inferred
ScanStore ==
    [p \in {PathOf(0)} |->
        Object(Merge([profile |-> "English"],
                     PrefixSettings(<<>>, FALSE, <<>>, <<".">>, <<".">>, 1)), {})]

\* the callouts of the type among the items indexed so far
RankAmong(items, type) ==
    Cardinality({k \in DOMAIN items : items[k].settings.def.type = type})

\* the settings of a callout with its _index
WithIndex(obj, rank) ==
    Object(Merge(obj.def, [_index |-> rank]), obj.undef)

\* an item of the index: the line it was read from, its settings with
\* _index, its title and its printName
IndexItem(k, obj, customTitle) ==
    [line |-> k,
     settings |-> obj,
     title |-> customTitle,
     printName |-> formatTitle(PlainNote,
                               resolveSettings(Given(obj), ScanStore, ScannedNote),
                               TRUE)]

\* the scan of one section without the per-item handling of a parse
\* failure: the SyntaxError of the reader leaves the scan
ScanSection_NoCatch(items, k, line) ==
    LET read == readTheoremCalloutSettings(line)
    IN  IF read.kind = "object"
        THEN [items |-> Append(items,
                               IndexItem(k, WithIndex(read.obj,
                                                      RankAmong(items, read.obj.def.type)),
                                         readTheoremCalloutTitle(line).str)),
              raised |-> "none"]
        ELSE IF read.kind = "undefined" THEN [items |-> items, raised |-> "none"]
        ELSE [items |-> items, raised |-> read.kind]

\* the scan of one section: a theorem callout whose settings parse is
\* appended with its rank among the callouts of its type; a line that is no
\* theorem callout, and one whose settings do not parse, is skipped
ScanSection(items, k, line) ==
    LET read == readTheoremCalloutSettings(line)
    IN  IF read.kind = "object"
        THEN [items |-> Append(items,
                               IndexItem(k, WithIndex(read.obj,
                                                      RankAmong(items, read.obj.def.type)),
                                         readTheoremCalloutTitle(line).str)),
              raised |-> "none"]
        ELSE [items |-> items, raised |-> "none"]

\* the header lines of the model
HeaderLines ==
    {Line("math", "thmAuto", <<>>),
     Line("math", "thmAuto", <<" ", "M", " ">>),
     Line("math", "defAuto", <<>>),
     Line("math", "thmLiteral", <<" ", "M">>),
     Line("math", "broken", <<>>),
     Line("other", "", <<>>),
     Line("empty", "", <<>>)}

\* a note of up to MaxSections sections, not scanned yet
IndexInit ==
    /\ \E n \in 0..MaxSections : lines \in [1..n -> HeaderLines]
    /\ position = 0
    /\ noteIndex = <<>>
    /\ scanRaised = "none"

\* no scan is in progress
IndexIdle ==
    /\ lines = <<>>
    /\ position = 0
    /\ noteIndex = <<>>
    /\ scanRaised = "none"

\* the scan goes through the next section of the note
Scan ==
    /\ scanRaised = "none"
    /\ position < Len(lines)
    /\ \E scanned \in {ScanSection(noteIndex, position + 1, lines[position + 1])} :
          /\ noteIndex' = scanned.items
          /\ scanRaised' = scanned.raised
    /\ position' = position + 1
    /\ UNCHANGED lines
    /\ UNCHANGED <<numeralVars, prefixVars, resolveVars, formatVars, vaultVars, childOfVars, modalVars, suggestVars>>

IndexNext == Scan

(***************************************************************************)
(* The vault index: the entry of every note of the vault, kept by the      *)
(* handlers of the create, modify, rename and delete events of the vault.  *)
(***************************************************************************)
\* the notes that can be in the vault, and the paths they can have
VaultNotes == {"n1", "n2"}
VaultPaths == {"a.md", "b.md", "c.md"}

\* the path of a note that is not in the vault
NoPath == "none"

\* the contents a note can have: up to MaxNoteLines section header lines
NoteContents ==
    UNION {[1..n -> {Line("math", "thmAuto", <<>>), Line("math", "broken", <<>>)}] :
              n \in 0..MaxNoteLines}

\* the full scan of a note, section by section: its NoteIndex
ScanNote(content) ==
    LET scanned[k \in 0..Len(content)] ==
            IF k = 0 THEN <<>>
            ELSE ScanSection(scanned[k - 1], k, content[k]).items
    IN  scanned[Len(content)]

\* the vault index with the entry of the path set to the items
WithEntry(index, path, items) ==
    [q \in DOMAIN index \cup {path} |-> IF q = path THEN items ELSE index[q]]

\* the vault index without the entry of the path
WithoutEntry(index, path) == [q \in DOMAIN index \ {path} |-> index[q]]

\* a rename that leaves the vault index as it was
Renamed_Stale(index, old, new, items) == index

\* the vault index after a rename: the entry is kept under the new path
Renamed(index, old, new, items) == WithEntry(WithoutEntry(index, old), new, items)

Event(kind, n) == [kind |-> kind, note |-> n]

\* an empty vault, nothing indexed
VaultInit ==
    /\ notePath = [n \in VaultNotes |-> NoPath]
    /\ noteLines = [n \in VaultNotes |-> <<>>]
    /\ vaultIndex = <<>>
    /\ lastEvent = Event("load", "none")

\* no vault is loaded
VaultIdle ==
    /\ notePath = <<>>
    /\ noteLines = <<>>
    /\ vaultIndex = <<>>
    /\ lastEvent = Event("none", "none")

\* the paths no note has
FreePaths == VaultPaths \ {notePath[n] : n \in VaultNotes}

\* a note is created: its first scan
OnCreate ==
    /\ \E n \in VaultNotes, p \in FreePaths, content \in NoteContents :
          /\ notePath[n] = NoPath
          /\ notePath' = [notePath EXCEPT ![n] = p]
          /\ noteLines' = [noteLines EXCEPT ![n] = content]
          /\ \E items \in {ScanNote(content)} :
                vaultIndex' = WithEntry(vaultIndex, p, items)
          /\ lastEvent' = Event("create", n)
    /\ UNCHANGED <<numeralVars, prefixVars, resolveVars, formatVars, indexVars, childOfVars, modalVars, suggestVars>>

\* a note is edited: its entry is rebuilt by a full rescan
OnModify ==
    /\ \E n \in VaultNotes, content \in NoteContents :
          /\ notePath[n] # NoPath
          /\ noteLines' = [noteLines EXCEPT ![n] = content]
          /\ \E items \in {ScanNote(content)} :
                vaultIndex' = WithEntry(vaultIndex, notePath[n], items)
          /\ lastEvent' = Event("modify", n)
    /\ UNCHANGED notePath
    /\ UNCHANGED <<numeralVars, prefixVars, resolveVars, formatVars, indexVars, childOfVars, modalVars, suggestVars>>

\* a note is renamed: its entry follows the path, rebuilt by a full rescan
OnRename ==
    /\ \E n \in VaultNotes, p \in FreePaths :
          /\ notePath[n] # NoPath
          /\ notePath' = [notePath EXCEPT ![n] = p]
          /\ \E items \in {ScanNote(noteLines[n])} :
                vaultIndex' = Renamed(vaultIndex, notePath[n], p, items)
          /\ lastEvent' = Event("rename", n)
    /\ UNCHANGED noteLines
    /\ UNCHANGED <<numeralVars, prefixVars, resolveVars, formatVars, indexVars, childOfVars, modalVars, suggestVars>>

\* a note is deleted: its entry is removed
OnDelete ==
    /\ \E n \in VaultNotes :
          /\ notePath[n] # NoPath
          /\ notePath' = [notePath EXCEPT ![n] = NoPath]
          /\ noteLines' = [noteLines EXCEPT ![n] = <<>>]
          /\ vaultIndex' = WithoutEntry(vaultIndex, notePath[n])
          /\ lastEvent' = Event("delete", n)
    /\ UNCHANGED <<numeralVars, prefixVars, resolveVars, formatVars, indexVars, childOfVars, modalVars, suggestVars>>

VaultNext == OnCreate \/ OnModify \/ OnRename \/ OnDelete

(***************************************************************************)
(* The files of the vault as a tree, named by their paths, and             *)
(* isEqualToOrChildOf on them.                                             *)
(***************************************************************************)
\* file.parent of every file and folder; the root folder has none
NoFile == "null"

TreeParent ==
    [f \in {"/"} |-> NoFile] @@
    [f \in {"A", "C", "z.md"} |-> "/"] @@
    [f \in {"A/B", "A/x.md", "A/p.png"} |-> "A"] @@
    [f \in {"A/B/y.md"} |-> "A/B"] @@
    [f \in {"C/w.md"} |-> "C"]

\* app.vault.getAllLoadedFiles()
AllLoadedFiles == DOMAIN TreeParent

\* instanceof TFolder, and the extension of a TFile
Folders == {"/", "A", "A/B", "C"}
Extension(f) == IF f = "A/p.png" THEN "png" ELSE "md"

\* TFolder.isRoot()
IsRootFolder(f) == f = "/"

RECURSIVE ChildOfLoop(_, _)
\* while (true) { ... }: with ancestor null and file2 a file neither branch is
\* taken, the next iteration starts from the same ancestor and the loop never ends
ChildOfLoop(ancestor, other) ==
    IF ancestor = other THEN "true"
    ELSE IF ancestor # NoFile
    THEN (IF IsRootFolder(ancestor) THEN "false"
          ELSE ChildOfLoop(TreeParent[ancestor], other))
    ELSE "diverges"

isEqualToOrChildOf(f1, f2) ==
    IF f1 = f2 THEN "true"
    ELSE IF f2 \in Folders /\ IsRootFolder(f2) THEN "true"
    ELSE ChildOfLoop(TreeParent[f1], f2)

\* a call on any two files of the vault
ChildOfInit ==
    /\ file1 \in AllLoadedFiles
    /\ file2 \in AllLoadedFiles
    /\ childOf = "pending"

\* no isEqualToOrChildOf call is in progress
ChildOfIdle ==
    /\ file1 = NoFile
    /\ file2 = NoFile
    /\ childOf = "none"

\* isEqualToOrChildOf(file1, file2)
IsEqualToOrChildOf ==
    /\ childOf = "pending"
    /\ childOf' = isEqualToOrChildOf(file1, file2)
    /\ UNCHANGED <<file1, file2>>
    /\ UNCHANGED <<numeralVars, prefixVars, resolveVars, formatVars, indexVars, vaultVars, modalVars, suggestVars>>

ChildOfNext == IsEqualToOrChildOf

(***************************************************************************)
(* The modals: the list plugin.excludedFiles, the per-path store           *)
(* plugin.settings as the modals read and write it, and the one            *)
(* ContextSettingModal that can be open.                                   *)
(***************************************************************************)
\* app.vault.getAbstractFileByPath(path)
getAbstractFileByPath(path) == IF path \in AllLoadedFiles THEN path ELSE NoFile

\* FileSuggestModal.filterCallback without the loop over plugin.excludedFiles
filterCallback_NoExcluded(f, excluded) ==
    IF f \notin Folders /\ Extension(f) # "md" THEN FALSE
    ELSE IF f \in Folders /\ IsRootFolder(f) THEN FALSE
    ELSE TRUE

\* FileSuggestModal.filterCallback(abstractFile)
filterCallback(f, excluded) ==
    IF f \notin Folders /\ Extension(f) # "md" THEN FALSE
    ELSE IF f \in Folders /\ IsRootFolder(f) THEN FALSE
    ELSE ~\E i \in DOMAIN excluded :
            /\ getAbstractFileByPath(excluded[i]) # NoFile
            /\ isEqualToOrChildOf(f, getAbstractFileByPath(excluded[i])) = "true"

\* FileExcludeSuggestModal.filterCallback(abstractFile)
excludeFilterCallback(f, store, excluded) ==
    IF \E path \in DOMAIN store : path = f THEN FALSE
    ELSE filterCallback(f, excluded)

\* Array.prototype.remove(target) of the host: every occurrence is removed
remove(arr, target) == SelectSeq(arr, LAMBDA e : e # target)

\* if (this.plugin.settings[this.file.path] === undefined)
\*     this.plugin.settings[this.file.path] = {}
StoreAfterOpen(store, f) ==
    IF f \in DOMAIN store THEN store
    ELSE [p \in DOMAIN store \cup {f} |-> IF p = f THEN EmptyObject ELSE store[p]]

\* a ContextSettingModal: its file, whether it was given a callback and a
\* parent, whether it is open, and what closed it
ContextSettingModal(f, callback, parent, state, closedBy) ==
    [file |-> f, callback |-> callback, parent |-> parent, state |-> state,
     closedBy |-> closedBy]

NoModal == ContextSettingModal(NoFile, FALSE, FALSE, "none", "none")

\* ContextSettingModal.onClose: what it does, in order
onClose(m) ==
    << "contentEl.empty()", "plugin.saveSettings()",
       "trigger local-settings-updated " \o m.file >>
    \o (IF m.parent THEN << "parent.open()" >> ELSE <<>>)

\* the click handler of the button with the callback called before close()
onClick_CallbackFirst(m) ==
    (IF m.callback THEN << "callback(settings)" >> ELSE <<>>) \o onClose(m)

\* the click handler of the button addButton adds: this.close(), then the
\* callback when there is one
onClick(m) ==
    onClose(m) \o (IF m.callback THEN << "callback(settings)" >> ELSE <<>>)

\* no exclusion, and either no modal or a ContextSettingModal with a
\* callback, opened on a file that has a record since
ModalsInit ==
    /\ excludedFiles = <<>>
    /\ closeLog = <<>>
    /\ \/ /\ contextSettings = <<>>
          /\ contextModal = NoModal
       \/ \E f \in AllLoadedFiles :
             /\ contextSettings = StoreAfterOpen(<<>>, f)
             /\ contextModal = ContextSettingModal(f, TRUE, FALSE, "open", "none")

\* no modal was ever opened
ModalsIdle ==
    /\ excludedFiles = <<>>
    /\ contextSettings = <<>>
    /\ contextModal = NoModal
    /\ closeLog = <<>>

\* FileExcludeSuggestModal.onChooseItem(file) on a file of getItems()
ChooseExcluded ==
    /\ contextModal.state # "open"
    /\ Len(excludedFiles) < MaxExcluded
    /\ \E f \in AllLoadedFiles :
          /\ excludeFilterCallback(f, contextSettings, excludedFiles)
          /\ excludedFiles' = Append(excludedFiles, f)
    /\ UNCHANGED <<contextSettings, contextModal, closeLog>>
    /\ UNCHANGED <<numeralVars, prefixVars, resolveVars, formatVars, indexVars, vaultVars, childOfVars, suggestVars>>

\* the x button of an excluded path in ExcludedFileManageModal
RemoveExcluded ==
    /\ contextModal.state # "open"
    /\ \E i \in DOMAIN excludedFiles :
          excludedFiles' = remove(excludedFiles, excludedFiles[i])
    /\ UNCHANGED <<contextSettings, contextModal, closeLog>>
    /\ UNCHANGED <<numeralVars, prefixVars, resolveVars, formatVars, indexVars, vaultVars, childOfVars, suggestVars>>

\* LocalContextSettingsSuggestModal.onChooseItem(file) on a file of
\* getItems(): a ContextSettingModal is opened on it
ChooseLocal ==
    /\ contextModal.state # "open"
    /\ \E f \in AllLoadedFiles :
          /\ filterCallback(f, excludedFiles)
          /\ Cardinality(DOMAIN StoreAfterOpen(contextSettings, f)) <= MaxRecords
          /\ contextSettings' = StoreAfterOpen(contextSettings, f)
          /\ contextModal' = ContextSettingModal(f, FALSE, FALSE, "open", "none")
    /\ closeLog' = <<>>
    /\ UNCHANGED excludedFiles
    /\ UNCHANGED <<numeralVars, prefixVars, resolveVars, formatVars, indexVars, vaultVars, childOfVars, suggestVars>>

\* the Open button of a TheoremCalloutModal on a note: a ContextSettingModal
\* with the TheoremCalloutModal as parent is opened on the note
OpenFromTheoremCalloutModal ==
    /\ contextModal.state # "open"
    /\ \E f \in AllLoadedFiles \ Folders :
          /\ Extension(f) = "md"
          /\ Cardinality(DOMAIN StoreAfterOpen(contextSettings, f)) <= MaxRecords
          /\ contextSettings' = StoreAfterOpen(contextSettings, f)
          /\ contextModal' = ContextSettingModal(f, FALSE, TRUE, "open", "none")
    /\ closeLog' = <<>>
    /\ UNCHANGED excludedFiles
    /\ UNCHANGED <<numeralVars, prefixVars, resolveVars, formatVars, indexVars, vaultVars, childOfVars, suggestVars>>

\* the Save button (or Enter in a text box) of the open ContextSettingModal
Save ==
    /\ contextModal.state = "open"
    /\ closeLog' = onClick(contextModal)
    /\ contextModal' = [contextModal EXCEPT !.state = "closed", !.closedBy = "Save"]
    /\ UNCHANGED <<excludedFiles, contextSettings>>
    /\ UNCHANGED <<numeralVars, prefixVars, resolveVars, formatVars, indexVars, vaultVars, childOfVars, suggestVars>>

\* the open ContextSettingModal is dismissed: the host calls onClose
Dismiss ==
    /\ contextModal.state = "open"
    /\ closeLog' = onClose(contextModal)
    /\ contextModal' = [contextModal EXCEPT !.state = "closed", !.closedBy = "dismissal"]
    /\ UNCHANGED <<excludedFiles, contextSettings>>
    /\ UNCHANGED <<numeralVars, prefixVars, resolveVars, formatVars, indexVars, vaultVars, childOfVars, suggestVars>>

ModalsNext ==
    \/ ChooseExcluded \/ RemoveExcluded \/ ChooseLocal \/ OpenFromTheoremCalloutModal
    \/ Save \/ Dismiss

(***************************************************************************)
(* The suggester: the documents of the edited note and of another note,    *)
(* the metadata cache of the note that holds the suggested item, and the   *)
(* selection of that item.  Lines and positions count from 0 as in the     *)
(* editor; a document is the sequence of its lines.                        *)
(***************************************************************************)
EditedNote == "a.md"
OtherNote == "b.md"

\* an EditorPosition
Pos(line, ch) == [line |-> line, ch |-> ch]

\* the text that triggers the suggester
TriggerText == << "\\", "r", "e", "f" >>

\* an id a section has already
ExistingId == << "a" >>
\* an id another block of the note has
TakenId == << "b" >>

HexDigits == << "0", "1", "2", "3", "4", "5", "6", "7", "8", "9",
               "a", "b", "c", "d", "e", "f" >>

\* [...Array(length)].map(() => Math.floor(Math.random() * 16).toString(16)).join('')
RECURSIVE RandomIds(_)
RandomIds(length) ==
    IF length = 0 THEN { <<>> }
    ELSE {<<HexDigits[d]>> \o id : d \in DOMAIN HexDigits, id \in RandomIds(length - 1)}

\* a metadata cache: its sections and its blocks, either of which may be
\* missing, or no cache at all
Cache(hasSections, sections, hasBlocks, blocks) ==
    [null |-> FALSE, hasSections |-> hasSections, sections |-> sections,
     hasBlocks |-> hasBlocks, blocks |-> blocks]
NullCache == [null |-> TRUE, hasSections |-> FALSE, sections |-> <<>>,
              hasBlocks |-> FALSE, blocks |-> {}]

\* a SectionCache; an id that is missing is the empty string here
Section(type, start, end, id) == [type |-> type, start |-> start, end |-> end, id |-> id]
NoSection == Section("none", -1, -1, <<>>)

\* generateBlockID(cache, length) with any id the random source can give
generateBlockID_AnyId(cache, length) == RandomIds(length)

\* generateBlockID(cache, length): the ids the loop can end with
generateBlockID(cache, length) ==
    {id \in RandomIds(length) : ~(~cache.null /\ cache.hasBlocks /\ id \in cache.blocks)}

\* io.insertLine(lineNumber, text): text becomes line lineNumber, the lines
\* from there on move down
insertLine(doc, lineNumber, text) ==
    IF lineNumber >= Len(doc) THEN Append(doc, text)
    ELSE SubSeq(doc, 1, lineNumber) \o <<text>> \o SubSeq(doc, lineNumber + 1, Len(doc))

\* the outcome of a call of insertBlockIdIfNotExist: what it returns, and
\* the document afterwards
BlockIdOutcome(returned, id, lineAdded, doc) ==
    [returned |-> returned, id |-> id, lineAdded |-> lineAdded, doc |-> doc]

\* insertBlockIdIfNotExist(plugin, targetFile, cache, sec, length), with id
\* what generateBlockID gives
insertBlockIdIfNotExist(doc, cache, sec, id) ==
    IF cache.null \/ ~cache.hasSections THEN BlockIdOutcome(FALSE, <<>>, 0, doc)
    ELSE IF sec.id # <<>> THEN BlockIdOutcome(TRUE, sec.id, 0, doc)
    ELSE BlockIdOutcome(TRUE, id, 2,
             insertLine(insertLine(doc, sec.end + 1, <<"^">> \o id), sec.end + 1, <<>>))

\* findSectionCache(cache, sec => sec.type == secType && sec.position.start.line == line)
findSectionCache(cache, secType, line) ==
    IF cache.hasSections
       /\ \E i \in DOMAIN cache.sections :
             cache.sections[i].type = secType /\ cache.sections[i].start = line
    THEN cache.sections[CHOOSE i \in DOMAIN cache.sections :
             /\ cache.sections[i].type = secType /\ cache.sections[i].start = line
             /\ \A j \in DOMAIN cache.sections :
                   (cache.sections[j].type = secType /\ cache.sections[j].start = line)
                       => i <= j]
    ELSE NoSection

\* the editor brings a position into the document
ClampPos(doc, pos) ==
    IF pos.line >= Len(doc) THEN Pos(Len(doc) - 1, Len(doc[Len(doc)]))
    ELSE Pos(pos.line, IF pos.ch > Len(doc[pos.line + 1]) THEN Len(doc[pos.line + 1]) ELSE pos.ch)

\* editor.getRange(from, to) for two positions of one line
getRange(doc, from, to) ==
    SubSeq(doc[ClampPos(doc, from).line + 1], ClampPos(doc, from).ch + 1, ClampPos(doc, to).ch)

\* editor.replaceRange(text, from, to) for a text without a line break
replaceRange(doc, text, from, to) ==
    SubSeq(doc, 1, ClampPos(doc, from).line)
    \o << SubSeq(doc[ClampPos(doc, from).line + 1], 1, ClampPos(doc, from).ch)
          \o text
          \o SubSeq(doc[ClampPos(doc, to).line + 1], ClampPos(doc, to).ch + 1,
                    Len(doc[ClampPos(doc, to).line + 1])) >>
    \o SubSeq(doc, ClampPos(doc, to).line + 2, Len(doc))

\* app.metadataCache.fileToLinktext(file, sourcePath): the name without .md
fileToLinktext(f) == IF f = OtherNote THEN << "b" >> ELSE << "a" >>

\* the store of the suggester: the root folder says whether a space follows
\* an inserted link, or says nothing
SuggestStore(insertSpace) ==
    [p \in {PathOf(0)} |->
        IF insertSpace = "unset" THEN EmptyObject
        ELSE Object([insertSpace |-> (insertSpace = "true")], {})]

\* settings.insertSpace of resolveSettings(undefined, plugin, file)
InsertSpace(resolved) ==
    "insertSpace" \in DOMAIN resolved.def /\ resolved.def.insertSpace = TRUE

\* let linktext = ""; if (item.file != file) ...; if (!insertNoteLink) ...
Linktext(itemFile, file, insertNoteLink, id) ==
    (IF itemFile # file THEN fileToLinktext(itemFile) ELSE <<>>)
    \o (IF ~insertNoteLink THEN <<"#", "^">> \o id ELSE <<>>)

\* the range replaceRange is called with
ReplacedRange(itemFile, file, start, end, lineAdded) ==
    IF itemFile = file
    THEN [from |-> Pos(start.line + lineAdded, start.ch), to |-> Pos(end.line + lineAdded, end.ch)]
    ELSE [from |-> start, to |-> end]

\* the lines of the item's section, of the block id it has, and the line
\* the cursor is in: a word, the trigger text, the query, and a full stop
\* after the cursor
SectionLines(l) ==
    << IF l.type = "theorem" THEN << ">", "!" >> ELSE << "$", "$" >> >>
    \o [i \in 1..(l.secLines - 1) |-> IF l.type = "theorem" THEN << ">", "x" >> ELSE << "$", "$" >>]
IdLines(l) == IF l.hasId THEN << <<>>, <<"^">> \o ExistingId >> ELSE <<>>
CursorLine(l) == << "s", " " >> \o TriggerText \o l.query \o << "." >>

\* the layouts: the item in the edited note or not, the cursor line before
\* or after the item's section, the lines of the section, with a block id
\* or not, a callout or a display equation, with other blocks or not
Layouts ==
    [same : BOOLEAN, cursorFirst : BOOLEAN, secLines : 1..MaxSecLines, hasId : BOOLEAN,
     type : {"theorem", "equation"}, query : { <<>>, << "t" >> }, taken : BOOLEAN]

\* the line of the cursor and the first line of the item's section
CursorLineNumber(l) ==
    IF l.cursorFirst THEN 0
    ELSE IF l.same THEN l.secLines + Len(IdLines(l)) + 1 ELSE 2
SectionStart(l) == IF l.same /\ l.cursorFirst THEN 2 ELSE 0

\* the documents of a layout
DocsOf(l) ==
    [f \in {EditedNote, OtherNote} |->
        IF f = EditedNote
        THEN IF l.same
             THEN IF l.cursorFirst
                  THEN << CursorLine(l), <<>> >> \o SectionLines(l) \o IdLines(l)
                  ELSE SectionLines(l) \o IdLines(l) \o << <<>>, CursorLine(l) >>
             ELSE IF l.cursorFirst THEN << CursorLine(l) >>
                  ELSE << << "p" >>, <<>>, CursorLine(l) >>
        ELSE IF l.same THEN << << "p" >> >> ELSE SectionLines(l) \o IdLines(l)]

\* the item's section as the cache has it
ItemSection(l) ==
    Section(IF l.type = "theorem" THEN "callout" ELSE "math",
            SectionStart(l), SectionStart(l) + l.secLines - 1,
            IF l.hasId THEN ExistingId ELSE <<>>)

\* the cache of the note of the item: with its sections, without them, or
\* none
CacheOf(l, kind) ==
    IF kind = "null" THEN NullCache
    ELSE Cache(kind = "sections",
               IF kind = "sections" THEN << ItemSection(l) >> ELSE <<>>,
               l.hasId \/ l.taken,
               (IF l.hasId THEN {ExistingId} ELSE {}) \cup (IF l.taken THEN {TakenId} ELSE {}))

\* the suggester was triggered in the edited note and shows the item
SuggestInit ==
    /\ \E l \in Layouts, insertSpace \in {"unset", "true", "false"}, hasContext \in BOOLEAN :
          /\ suggestion = [layout |-> l,
                           itemFile |-> IF l.same THEN EditedNote ELSE OtherNote,
                           hasContext |-> hasContext,
                           file |-> EditedNote,
                           start |-> Pos(CursorLineNumber(l), 2),
                           end |-> Pos(CursorLineNumber(l), 2 + Len(TriggerText) + Len(l.query)),
                           insertSpace |-> insertSpace]
          /\ docs = DocsOf(l)
          /\ \E kind \in {"sections", "noSections", "null"} : fileCache = CacheOf(l, kind)
    /\ selected = [phase |-> "idle", insertNoteLink |-> FALSE,
                   result |-> BlockIdOutcome(FALSE, <<>>, 0, <<>>),
                   linktext |-> <<>>, insertText |-> <<>>,
                   from |-> Pos(0, 0), to |-> Pos(0, 0), held |-> <<>>]

\* no suggester was triggered
SuggestIdle ==
    /\ suggestion = [hasContext |-> FALSE]
    /\ docs = <<>>
    /\ fileCache = NullCache
    /\ selected = [phase |-> "none"]

\* selectSuggestion(item, evt), or the modifier with Enter: the call of
\* selectSuggestionImpl(item, insertNoteLink) up to the end of
\* insertBlockIdIfNotExist
SelectSuggestion ==
    /\ selected.phase = "idle"
    /\ \E insertNoteLink \in BOOLEAN :
          IF ~(suggestion.hasContext /\ ~fileCache.null)
          THEN /\ selected' = [selected EXCEPT !.phase = "ignored",
                                               !.insertNoteLink = insertNoteLink]
               /\ UNCHANGED docs
          ELSE \E sec \in {findSectionCache(fileCache,
                               IF suggestion.layout.type = "theorem" THEN "callout" ELSE "math",
                               SectionStart(suggestion.layout))} :
                  IF sec = NoSection
                  THEN /\ selected' = [selected EXCEPT !.phase = "notice",
                                                       !.insertNoteLink = insertNoteLink]
                       /\ UNCHANGED docs
                  ELSE \E id \in generateBlockID(fileCache, IdLength) :
                       \E result \in {insertBlockIdIfNotExist(docs[suggestion.itemFile],
                                                              fileCache, sec, id)} :
                          /\ docs' = [docs EXCEPT ![suggestion.itemFile] = result.doc]
                          /\ selected' = [selected EXCEPT !.phase = "awaiting",
                                                          !.insertNoteLink = insertNoteLink,
                                                          !.result = result]
    /\ UNCHANGED <<suggestion, fileCache>>
    /\ UNCHANGED <<numeralVars, prefixVars, resolveVars, formatVars, indexVars, vaultVars, childOfVars, modalVars>>

\* selectSuggestionImpl after insertBlockIdIfNotExist: the link is built and
\* put in place of the range, or a notice is shown
InsertLink ==
    /\ selected.phase = "awaiting"
    /\ IF ~selected.result.returned
       THEN /\ selected' = [selected EXCEPT !.phase = "notice"]
            /\ UNCHANGED docs
       ELSE \E linktext \in {Linktext(suggestion.itemFile, suggestion.file,
                                      selected.insertNoteLink, selected.result.id)},
               range \in {ReplacedRange(suggestion.itemFile, suggestion.file,
                                        suggestion.start, suggestion.end,
                                        selected.result.lineAdded)},
               space \in {IF InsertSpace(resolveSettings(NotGiven,
                                             SuggestStore(suggestion.insertSpace), ScannedNote))
                          THEN << " " >> ELSE <<>>} :
               /\ docs' = [docs EXCEPT ![suggestion.file] =
                              replaceRange(docs[suggestion.file],
                                           << "[", "[" >> \o linktext \o << "]", "]" >> \o space,
                                           range.from, range.to)]
               /\ selected' = [selected EXCEPT
                      !.phase = "inserted",
                      !.linktext = linktext,
                      !.insertText = << "[", "[" >> \o linktext \o << "]", "]" >> \o space,
                      !.from = range.from,
                      !.to = range.to,
                      !.held = getRange(docs[suggestion.file], range.from, range.to)]
    /\ UNCHANGED <<suggestion, fileCache>>
    /\ UNCHANGED <<numeralVars, prefixVars, resolveVars, formatVars, indexVars, vaultVars, childOfVars, modalVars>>

\* a call of insertBlockIdIfNotExist for the item's section by another
\* caller, whatever the cache holds by now
InsertBlockId ==
    /\ selected.phase = "idle"
    /\ \E id \in generateBlockID(fileCache, IdLength) :
       \E result \in {insertBlockIdIfNotExist(docs[suggestion.itemFile], fileCache,
                                              ItemSection(suggestion.layout), id)} :
          /\ docs' = [docs EXCEPT ![suggestion.itemFile] = result.doc]
          /\ selected' = [selected EXCEPT !.phase = "returned", !.result = result]
    /\ UNCHANGED <<suggestion, fileCache>>
    /\ UNCHANGED <<numeralVars, prefixVars, resolveVars, formatVars, indexVars, vaultVars, childOfVars, modalVars>>

SuggestNext == SelectSuggestion \/ InsertLink \/ InsertBlockId

\* a converter call, with no other call in progress
InitNumeral == NumeralInit /\ PrefixIdle /\ ResolveIdle /\ FormatIdle /\ IndexIdle /\ VaultIdle /\ ChildOfIdle /\ ModalsIdle /\ SuggestIdle

SpecNumeral == InitNumeral /\ [][NumeralNext]_vars

\* an inferNumberPrefix call, with no other call in progress
InitPrefix == PrefixInit /\ NumeralIdle /\ ResolveIdle /\ FormatIdle /\ IndexIdle /\ VaultIdle /\ ChildOfIdle /\ ModalsIdle /\ SuggestIdle

SpecPrefix == InitPrefix /\ [][PrefixNext]_vars

\* a resolveSettings call, with no other call in progress
InitResolve == ResolveInit /\ NumeralIdle /\ PrefixIdle /\ FormatIdle /\ IndexIdle /\ VaultIdle /\ ChildOfIdle /\ ModalsIdle /\ SuggestIdle

SpecResolve == InitResolve /\ [][ResolveNext]_vars

\* resolveSettings called MaxCalls times, with no other call in progress
InitResolveAgain == ResolveAgainInit /\ NumeralIdle /\ PrefixIdle /\ FormatIdle /\ IndexIdle /\ VaultIdle /\ ChildOfIdle /\ ModalsIdle /\ SuggestIdle

SpecResolveAgain == InitResolveAgain /\ [][ResolveNext]_vars

\* a formatTitle call, with no other call in progress
InitTitle == TitleInit /\ NumeralIdle /\ PrefixIdle /\ ResolveIdle /\ IndexIdle /\ VaultIdle /\ ChildOfIdle /\ ModalsIdle /\ SuggestIdle

SpecTitle == InitTitle /\ [][TitleNext]_vars

\* a getNumberPrefix and a getEqNumberPrefix call on the same settings
InitNumberPrefix == NumberPrefixInit /\ NumeralIdle /\ PrefixIdle /\ ResolveIdle /\ IndexIdle /\ VaultIdle /\ ChildOfIdle /\ ModalsIdle /\ SuggestIdle

SpecNumberPrefix == InitNumberPrefix /\ [][NumberPrefixNext]_vars

\* a formatLabel call, with no other call in progress
InitLabel == LabelInit /\ NumeralIdle /\ PrefixIdle /\ ResolveIdle /\ IndexIdle /\ VaultIdle /\ ChildOfIdle /\ ModalsIdle /\ SuggestIdle

SpecLabel == InitLabel /\ [][LabelNext]_vars

\* a scan of a note, with no call in progress
InitIndex == IndexInit /\ NumeralIdle /\ PrefixIdle /\ ResolveIdle /\ FormatIdle /\ VaultIdle /\ ChildOfIdle /\ ModalsIdle /\ SuggestIdle

SpecIndex == InitIndex /\ [][IndexNext]_vars

\* the events of a vault that starts empty, with no call in progress
InitVault == VaultInit /\ NumeralIdle /\ PrefixIdle /\ ResolveIdle /\ FormatIdle /\ IndexIdle /\ ChildOfIdle /\ ModalsIdle /\ SuggestIdle

SpecVault == InitVault /\ [][VaultNext]_vars

\* an isEqualToOrChildOf call, with no other call in progress
InitChildOf == ChildOfInit /\ NumeralIdle /\ PrefixIdle /\ ResolveIdle /\ FormatIdle /\ IndexIdle /\ VaultIdle /\ ModalsIdle /\ SuggestIdle

SpecChildOf == InitChildOf /\ [][ChildOfNext]_vars

\* the operations of the modals, with no call in progress
InitModals == ModalsInit /\ NumeralIdle /\ PrefixIdle /\ ResolveIdle /\ FormatIdle /\ IndexIdle /\ VaultIdle /\ ChildOfIdle /\ SuggestIdle

SpecModals == InitModals /\ [][ModalsNext]_vars

\* a suggested item is selected, with no other call in progress
InitSuggest == SuggestInit /\ NumeralIdle /\ PrefixIdle /\ ResolveIdle /\ FormatIdle /\ IndexIdle /\ VaultIdle /\ ChildOfIdle /\ ModalsIdle

SpecSuggest == InitSuggest /\ [][SuggestNext]_vars

(***************************************************************************)
(* Reference definitions of the numeral systems                            *)
(***************************************************************************)
RECURSIVE Bijective26(_, _)
\* the bijective base-26 numeral of n >= 1 over the 26 letters: a..z, aa, ab, ...
Bijective26(n, letters) ==
    IF n <= 0 THEN <<>>
    ELSE Bijective26((n - 1) \div 26, letters) \o <<letters[((n - 1) % 26) + 1]>>

RomanSymbols == << <<1000, <<"M">> >>, <<900, <<"C","M">> >>, <<500, <<"D">> >>,
                   <<400, <<"C","D">> >>, <<100, <<"C">> >>, <<90, <<"X","C">> >>,
                   <<50, <<"L">> >>, <<40, <<"X","L">> >>, <<10, <<"X">> >>,
                   <<9, <<"I","X">> >>, <<5, <<"V">> >>, <<4, <<"I","V">> >>,
                   <<1, <<"I">> >> >>

RECURSIVE ClassicRomanFrom(_, _)
\* subtractive notation, written greedily from the largest symbol down
ClassicRomanFrom(n, k) ==
    IF n <= 0 \/ k > Len(RomanSymbols) THEN <<>>
    ELSE IF n >= RomanSymbols[k][1]
        THEN RomanSymbols[k][2] \o ClassicRomanFrom(n - RomanSymbols[k][1], k)
    ELSE ClassicRomanFrom(n, k + 1)

ClassicRoman(n) == ClassicRomanFrom(n, 1)

RomanSymbolValue(c) ==
    CASE c = "I" -> 1 [] c = "V" -> 5 [] c = "X" -> 10 [] c = "L" -> 50
      [] c = "C" -> 100 [] c = "D" -> 500 [] c = "M" -> 1000 [] OTHER -> 0

RECURSIVE ReadRoman(_)
\* a Roman-numeral reader: a symbol smaller than its successor is subtracted
ReadRoman(s) ==
    IF s = <<>> THEN 0
    ELSE IF Len(s) >= 2 /\ RomanSymbolValue(s[1]) < RomanSymbolValue(s[2])
        THEN ReadRoman(Tail(s)) - RomanSymbolValue(s[1])
    ELSE ReadRoman(Tail(s)) + RomanSymbolValue(s[1])

(***************************************************************************)
(* Claims about the numeral formatter                                      *)
(***************************************************************************)
\* C1: for every n >= 1, toAlphLower(n) and toAlphUpper(n) are the bijective
\* base-26 numeral of n over a..z and A..Z (1 -> a, 26 -> z, 27 -> aa,
\* toAlphUpper(28) = AB).
C1_AlphIsBijectiveBase26 ==
    (numeral # Pending /\ num >= 1) =>
        /\ style = "alph" => numeral = Returned(Bijective26(num, LowerChars))
        /\ style = "Alph" => numeral = Returned(Bijective26(num, UpperChars))

\* C2: for every n in 1..3999, toRomanUpper(n) is the classic subtractive
\* Roman numeral of n, a Roman-numeral reader gives n back from it, and
\* toRomanLower(n) is the same string in lower case.
C2_RomanRoundTrip ==
    (numeral # Pending /\ num \in 1..3999) =>
        /\ style = "Roman" =>
              /\ numeral.kind = "string"
              /\ ReadRoman(numeral.str) = num
              /\ numeral.str = ClassicRoman(num)
        /\ style = "roman" =>
              /\ numeral.kind = "string"
              /\ ReadRoman(toUpperCase(numeral.str)) = num
              /\ numeral.str = toLowerCase(ClassicRoman(num))

C2_Witness ==
    /\ numeral = Returned(<<"M", "C", "M", "X", "C", "I", "V">>)
    /\ style = "Roman"
    /\ num = 1994

\* C3: for zero and every negative integer, every converter of CONVERTER
\* returns a string and raises no exception.
C3_ConvertersNeverThrow ==
    (numeral # Pending /\ num <= 0) => numeral.kind = "string"

(***************************************************************************)
(* Reference definitions for prefix inference                              *)
(***************************************************************************)
\* the part of s before its first whitespace character
HeadOf(s) ==
    LET k == CHOOSE k \in 0..Len(s) :
                /\ \A j \in 1..k : s[j] \notin WhiteSpace
                /\ k = Len(s) \/ s[k + 1] \in WhiteSpace
    IN  [j \in 1..k |-> s[j]]

RECURSIVE JoinedFirst(_, _, _)
\* the first k labels of ls with sep between each two of them
JoinedFirst(ls, k, sep) ==
    IF k <= 0 THEN <<>>
    ELSE IF k = 1 THEN ls[1]
    ELSE JoinedFirst(ls, k - 1, sep) \o sep \o ls[k]

Min(a, b) == IF a <= b THEN a ELSE b

HasSuffix(s, suffix) == \E t \in {SubSeq(s, 1, k) : k \in 0..Len(s)} : s = t \o suffix

NonBlankCount(ls) == Cardinality({k \in DOMAIN ls : ls[k] # <<>>})

\* the words of M{0,4}(CM|CD|D?C{0,3})(XC|XL|L?X{0,3})(IX|IV|V?I{0,3})
RomanGroupWords(nine, four, five, one) ==
    {nine, four} \cup {f \o Repeat(one, k) : f \in {<<>>, <<five>>}, k \in 0..3}

RomanWords ==
    {m \o c \o x \o i :
        m \in {Repeat("M", k) : k \in 0..4},
        c \in RomanGroupWords(<<"C", "M">>, <<"C", "D">>, "D", "C"),
        x \in RomanGroupWords(<<"X", "C">>, <<"X", "L">>, "L", "X"),
        i \in RomanGroupWords(<<"I", "X">>, <<"I", "V">>, "V", "I")}

Digits == {"0", "1", "2", "3", "4", "5", "6", "7", "8", "9"}

Letters == {UpperChars[k] : k \in 1..26} \cup {LowerChars[k] : k \in 1..26}

\* a non-blank label that is one or more digits, a Roman numeral of the
\* grammar in either case, or a single letter
IsNumberLabel(label) ==
    /\ label # <<>>
    /\ \/ \A k \in 1..Len(label) : label[k] \in Digits
       \/ toUpperCase(label) \in RomanWords
       \/ Len(label) = 1 /\ label[1] \in Letters

PrefixDone == prefix.kind \in {"string", "undefined"}

(***************************************************************************)
(* Claims about prefix inference                                           *)
(***************************************************************************)
Example1 == <<"1", "-", "2", ".", "A", " ", "f", "o", "o">>

\* C4, as claimed: inferNumberPrefix("1-2.A foo", "-.", ".", 3) returns "1-2.A.".
C4_ExampleAsClaimed ==
    (/\ prefix # Pending
     /\ source = Example1 /\ parseSep = <<"-", ".">>
     /\ printSep = <<".">> /\ useFirstN = 3)
        => prefix = Returned(<<"1", "-", "2", ".", "A", ".">>)

\* C4, amended: inferNumberPrefix("1-2.A foo", "-.", ".", 3) returns "1.2.A.":
\* the labels 1, 2, A are joined with printSep, not with the separators of
\* the source.
C4_Example ==
    (/\ prefix # Pending
     /\ source = Example1 /\ parseSep = <<"-", ".">>
     /\ printSep = <<".">> /\ useFirstN = 3)
        => /\ labels = << <<"1">>, <<"2">>, <<"A">> >>
           /\ prefix = Returned(<<"1", ".", "2", ".", "A", ".">>)

C4_Witness ==
    /\ prefix.kind = "string"
    /\ source = Example1 /\ parseSep = <<"-", ".">>
    /\ printSep = <<".">> /\ useFirstN = 3

\* C5: the labels are the split of the head, the part of the source before
\* its first whitespace; when they are valid the result is the first
\* useFirstN labels (blank ones included) joined with printSep, with printSep
\* appended exactly when the joined string does not already end with it; when
\* they are not valid the result is absent.
C5_PrefixOfValidLabels ==
    PrefixDone =>
        LET joined == JoinedFirst(labels, Min(useFirstN, Len(labels)), printSep)
        IN  /\ labels = split(HeadOf(source), parseSep)
            /\ areValidLabels(labels) =>
                  prefix = Returned(IF HasSuffix(joined, printSep) THEN joined
                                    ELSE joined \o printSep)
            /\ ~areValidLabels(labels) => prefix = Undefined

\* "1..i" split on ".": the blank second label is among the two used, and
\* the joined "1." already ends with the separator
C5_Witness ==
    /\ labels = << <<"1">>, <<>>, <<"i">> >>
    /\ useFirstN = 2 /\ printSep = <<".">>
    /\ prefix = Returned(<<"1", ".">>)

\* C6: with exactly one non-blank label, the labels are valid only if the
\* split produced exactly two labels and the first of them is a valid
\* (digits, Roman numeral or single letter) label; "A note about calculus"
\* is absent, "A. note" gives "A.", and ".A" is not accepted through its
\* blank first label.
C6_SingleLabelRule ==
    (PrefixDone /\ NonBlankCount(labels) = 1) =>
        (prefix.kind = "string" <=> (Len(labels) = 2 /\ IsNumberLabel(labels[1])))

\* C7: with two or more non-blank labels the labels are valid exactly when
\* every non-blank label is digits, a Roman numeral of the grammar in either
\* case, or a single letter; with no non-blank label they are not valid.
C7_EveryNonBlankLabelValid ==
    PrefixDone =>
        /\ NonBlankCount(labels) >= 2 =>
              (prefix.kind = "string" <=>
                  \A k \in DOMAIN labels : labels[k] # <<>> => IsNumberLabel(labels[k]))
        /\ NonBlankCount(labels) = 0 => prefix = Undefined

\* "1.iV": a number and a Roman numeral of mixed case
C7_Witness ==
    /\ labels = << <<"1">>, <<"i", "V">> >>
    /\ prefix.kind = "string"

(***************************************************************************)
(* Claims about the settings resolver                                      *)
(***************************************************************************)
ResolveDone == resolvedSettings.kind = "object"

\* objects a and b agree on property f: both lack it, both hold undefined,
\* or both hold the same value
SameProperty(a, b, f) ==
    /\ f \in a.undef <=> f \in b.undef
    /\ f \in DOMAIN a.def <=> f \in DOMAIN b.def
    /\ (f \in DOMAIN a.def /\ f \in DOMAIN b.def) => a.def[f] = b.def[f]

\* the nodes from the root down to the file: node a is an ancestor of node
\* f, or f itself, when it is not deeper
AncestorNodes(file) == {n \in Nodes : n <= file}

\* the ancestors whose record has the field among its own keys
Setters(f) ==
    {n \in AncestorNodes(currentFile) :
        /\ PathOf(n) \in DOMAIN pluginSettings
        /\ f \in OwnKeys(pluginSettings[PathOf(n)])}

Deepest(ns) == CHOOSE n \in ns : \A m \in ns : m <= n

\* the object that decides field f: the local overrides, else the record of
\* the deepest ancestor that has the field, else the defaults
DecidingObject(f) ==
    IF settings.given /\ f \in OwnKeys(settings.obj) THEN settings.obj
    ELSE IF Setters(f) # {} THEN pluginSettings[PathOf(Deepest(Setters(f)))]
    ELSE DEFAULT_SETTINGS

\* C8: every field of the result is the one of the local overrides if they
\* set it (have it as an own key), otherwise the one of the deepest ancestor,
\* the file included, whose record sets it, otherwise the global default;
\* the ancestors are ordered from the vault root down to the file.
C8_OverrideMonotonic ==
    ResolveDone =>
        /\ \A f \in MathContextSettings \cup OwnKeys(resolvedSettings.obj) :
              SameProperty(resolvedSettings.obj, DecidingObject(f), f)
        /\ Len(ancestors) = Cardinality(AncestorNodes(currentFile))
        /\ isRoot(ancestors[1])
        /\ ancestors[Len(ancestors)] = currentFile
        /\ \A i \in 1..(Len(ancestors) - 1) : Parent(ancestors[i + 1]) = ancestors[i]

\* the root, the folder and the note all set numberInit, the folder also
\* titleSuffix, and the local overrides set titleSuffix: the note's
\* numberInit and the local titleSuffix win
C8_Witness ==
    /\ ResolveDone
    /\ currentFile = 2
    /\ \A n \in 0..2 :
          /\ PathOf(n) \in DOMAIN pluginSettings
          /\ "numberInit" \in DOMAIN pluginSettings[PathOf(n)].def
    /\ "titleSuffix" \in DOMAIN pluginSettings[PathOf(1)].def
    /\ settings.given /\ "titleSuffix" \in DOMAIN settings.obj.def
    /\ resolvedSettings.obj.def.numberInit = LayerValue("numberInit", 2)
    /\ resolvedSettings.obj.def.titleSuffix = LayerValue("titleSuffix", MaxDepth + 1)

NoAncestorRecord == \A n \in AncestorNodes(currentFile) : PathOf(n) \notin DOMAIN pluginSettings

\* C9: with no record for any ancestor of the file (an empty store
\* included), the result is exactly the global defaults with the local
\* overrides merged over them, and no error is raised.
C9_DefaultsWithoutRecords ==
    (resolvedSettings # ResolvePending /\ NoAncestorRecord) =>
        /\ resolvedSettings.kind = "object"
        /\ OwnKeys(resolvedSettings.obj) =
              MathContextSettings \cup (IF settings.given THEN OwnKeys(settings.obj) ELSE {})
        /\ \A f \in OwnKeys(resolvedSettings.obj) :
              SameProperty(resolvedSettings.obj,
                           IF settings.given /\ f \in OwnKeys(settings.obj)
                           THEN settings.obj ELSE DEFAULT_SETTINGS, f)

\* the store has a record, but for no ancestor of the folder resolved for,
\* and the local overrides set numberInit
C9_Witness ==
    /\ ResolveDone /\ NoAncestorRecord
    /\ currentFile = 1
    /\ DOMAIN pluginSettings = {PathOf(2)}
    /\ settings.given /\ "numberInit" \in DOMAIN settings.obj.def
    /\ resolvedSettings.obj.def.numberInit = LayerValue("numberInit", MaxDepth + 1)
    /\ resolvedSettings.obj.def.titleSuffix = <<".">>

\* C10: for every store, ancestor chain and local overrides, records with a
\* key that holds undefined included, every MathContextSettings field of the
\* result is defined.
C10_EveryFieldDefined ==
    ResolveDone => \A f \in MathContextSettings : f \in DOMAIN resolvedSettings.obj.def

(***************************************************************************)
(* C11: a call of resolveSettings leaves every object that existed before  *)
(* it as it was (the records of the per-path store, the global             *)
(* DEFAULT_SETTINGS, the local overrides and the objects earlier calls     *)
(* returned), and the reference it returns is to an object that did not    *)
(* exist before the call.                                                  *)
(***************************************************************************)
C11_FrameAndNewObject ==
    [][/\ \A r \in DOMAIN heap : r \in DOMAIN heap' /\ heap'[r] = heap[r]
       /\ heap'[DefaultsRef] = DEFAULT_SETTINGS
       /\ pluginSettings' = pluginSettings
       /\ settings' = settings
       /\ resolvedRef' \in DOMAIN heap' \ DOMAIN heap]_vars

\* the second call on a store with a record and with local overrides: its
\* result differs from the defaults and is another object than the first
C11_Witness ==
    /\ resolvedRef = NewRef(2)
    /\ NewRef(1) \in DOMAIN heap
    /\ heap[NewRef(1)] = heap[NewRef(2)]
    /\ heap[resolvedRef] # DEFAULT_SETTINGS
    /\ pluginSettings # <<>>
    /\ settings.given
    /\ "titleSuffix" \in DOMAIN settings.obj.def

(***************************************************************************)
(* The title formatter: what the claims call the parts of a title          *)
(***************************************************************************)
TitleDone == title # Pending

\* the environment display name of the settings formatted
DisplayName ==
    Profiles[titleSettings.def.profile].body.theorem[titleSettings.def.type]

\* number is present and not empty
HasNumber == "number" \in DOMAIN titleSettings.def /\ titleSettings.def.number # <<>>

IsAuto == HasNumber /\ titleSettings.def.number = <<"a", "u", "t", "o">>

HasIndex == "_index" \in DOMAIN titleSettings.def

\* " (title)" when a custom title exists
TitlePart ==
    IF "title" \in DOMAIN titleSettings.def /\ titleSettings.def.title # <<>>
    THEN <<" ", "(">> \o titleSettings.def.title \o <<")">>
    ELSE <<>>

\* titleSuffix when it is not empty and not suppressed
SuffixPart(suppressed) ==
    IF ~suppressed /\ titleSettings.def.titleSuffix # <<>>
    THEN titleSettings.def.titleSuffix
    ELSE <<>>

\* the numeral of _index + numberInit in the numberStyle of the settings
NumeralOfIndex ==
    CONVERTER(IF "numberStyle" \in DOMAIN titleSettings.def
              THEN titleSettings.def.numberStyle ELSE "arabic",
              titleSettings.def._index + titleSettings.def.numberInit)

\* " " + prefix + numeral + numberSuffix
AutoNumberPart ==
    <<" ">> \o getNumberPrefix(note, titleSettings).str \o NumeralOfIndex.str
            \o titleSettings.def.numberSuffix

\* the settings of the example: thm, auto, _index 0, numberInit 1, arabic, an
\* empty prefix, no custom title and the suffix "."
IsTheoremExample ==
    /\ titleSettings.def.type = "thm"
    /\ IsAuto
    /\ HasIndex /\ titleSettings.def._index = 0
    /\ titleSettings.def.numberInit = 1
    /\ "numberStyle" \in DOMAIN titleSettings.def /\ titleSettings.def.numberStyle = "arabic"
    /\ titleSettings.def.numberPrefix = <<>> /\ ~titleSettings.def.inferNumberPrefix
    /\ titleSettings.def.numberSuffix = <<>>
    /\ "title" \notin DOMAIN titleSettings.def
    /\ titleSettings.def.titleSuffix = <<".">> /\ ~noTitleSuffix

(***************************************************************************)
(* C12: when number is "auto" and _index is present (0 included),          *)
(* formatTitle returns the display name followed by " ", the prefix, the   *)
(* numeral of _index + numberInit in numberStyle and numberSuffix (then    *)
(* the custom title and the suffix); the example gives "Theorem 1.".       *)
(***************************************************************************)
C12_AutoNumberAppended ==
    (TitleDone /\ IsAuto /\ HasIndex) =>
        /\ title = Returned(DisplayName \o AutoNumberPart \o TitlePart
                            \o SuffixPart(noTitleSuffix))
        /\ IsTheoremExample =>
              title = Returned(<<"T", "h", "e", "o", "r", "e", "m", " ", "1", ".">>)

(***************************************************************************)
(* C13: when number is a non-empty string other than "auto", formatTitle   *)
(* appends exactly " " and the number to the display name, without         *)
(* prefix, numeral or numberSuffix; when number is empty or absent it      *)
(* appends no number part at all.                                          *)
(***************************************************************************)
C13_LiteralNumber ==
    TitleDone =>
        /\ (HasNumber /\ ~IsAuto) =>
              title = Returned(DisplayName \o <<" ">> \o titleSettings.def.number
                               \o TitlePart \o SuffixPart(noTitleSuffix))
        /\ ~HasNumber =>
              title = Returned(DisplayName \o TitlePart \o SuffixPart(noTitleSuffix))

\* the number "2a" of a callout that has an _index, an explicit prefix "P"
\* and the numberSuffix ")": the title is "Theorem 2a"
C13_Witness ==
    /\ title = Returned(<<"T", "h", "e", "o", "r", "e", "m", " ", "2", "a">>)
    /\ HasIndex
    /\ titleSettings.def.numberPrefix = <<"P">>
    /\ titleSettings.def.numberSuffix = <<")">>

(***************************************************************************)
(* C14: when number is "auto" and _index is absent, formatTitle raises     *)
(* nothing and returns the display name, " (title)" when there is a custom *)
(* title, and the suffix, without any numeral.                             *)
(***************************************************************************)
C14_AutoWithoutIndex ==
    (TitleDone /\ IsAuto /\ ~HasIndex) =>
        title = Returned(DisplayName \o TitlePart \o SuffixPart(noTitleSuffix))

\* "Definition (M)." of a callout without _index, in settings whose parseSep
\* is no character class and whose numberInit is -100 in Roman style
C14_Witness ==
    /\ IsAuto /\ ~HasIndex
    /\ title = Returned(<<"D", "e", "f", "i", "n", "i", "t", "i", "o", "n",
                          " ", "(", "M", ")", ".">>)
    /\ titleSettings.def.inferNumberPrefixParseSep = <<"_", "-", ".">>
    /\ titleSettings.def.inferNumberPrefix
    /\ "numberInit" \in DOMAIN titleSettings.def /\ titleSettings.def.numberInit = -100
    /\ "numberStyle" \in DOMAIN titleSettings.def /\ titleSettings.def.numberStyle = "Roman"

\* the number part: of an automatic number, of a literal number, or none
NumberPart ==
    IF IsAuto THEN (IF HasIndex THEN AutoNumberPart ELSE <<>>)
    ELSE IF HasNumber THEN <<" ">> \o titleSettings.def.number
    ELSE <<>>

(***************************************************************************)
(* C15: the result of formatTitle is the display name, the number part,    *)
(* " (title)" when there is a custom title, then titleSuffix, in this      *)
(* order; titleSuffix is there exactly when it is not empty and            *)
(* noTitleSuffix is false; the result with noTitleSuffix true is the       *)
(* result with noTitleSuffix false without the trailing titleSuffix.       *)
(***************************************************************************)
C15_TitleOrder ==
    title.kind = "string" =>
        /\ title.str = DisplayName \o NumberPart \o TitlePart
                       \o (IF ~noTitleSuffix /\ titleSettings.def.titleSuffix # <<>>
                           THEN titleSettings.def.titleSuffix ELSE <<>>)
        /\ formatTitle(note, titleSettings, TRUE).kind = "string"
        /\ formatTitle(note, titleSettings, FALSE) =
              Returned(formatTitle(note, titleSettings, TRUE).str
                       \o titleSettings.def.titleSuffix)
        /\ title = formatTitle(note, titleSettings, noTitleSuffix)

\* "Theorem 1.2 (M)": the second theorem of the note "1.2 b", with the
\* inferred prefix "1.", the custom title "M" and the suffix "." suppressed
C15_Witness ==
    /\ title = Returned(<<"T", "h", "e", "o", "r", "e", "m", " ", "1", ".", "2",
                          " ", "(", "M", ")">>)
    /\ noTitleSuffix
    /\ titleSettings.def.titleSuffix = <<".">>
    /\ titleSettings.def.numberPrefix = <<>>
    /\ IsAuto /\ HasIndex /\ titleSettings.def._index = 1

(***************************************************************************)
(* The number prefix getters: what the claims call the source and the      *)
(* inferred prefix                                                         *)
(***************************************************************************)
\* the value of the property named: the text of its link, else its value
PropertyValueOf(name) ==
    IF \E i \in DOMAIN note.frontmatterLinks : note.frontmatterLinks[i].key = name
    THEN [kind |-> "string",
          str |-> note.frontmatterLinks[
                     CHOOSE i \in DOMAIN note.frontmatterLinks :
                        /\ note.frontmatterLinks[i].key = name
                        /\ \A j \in 1..(i - 1) : note.frontmatterLinks[j].key # name].link,
          num |-> 0]
    ELSE IF name \in DOMAIN note.frontmatter THEN note.frontmatter[name]
    ELSE [kind |-> "undefined", str |-> <<>>, num |-> 0]

\* the source of the inference: the property value when a property is named,
\* else the base name
SourceOf(fromProperty) ==
    IF fromProperty # <<>> THEN PropertyValueOf(fromProperty)
    ELSE [kind |-> "string", str |-> note.basename, num |-> 0]

\* the source is empty: "", 0 or no value
EmptySource(src) ==
    \/ src.kind = "undefined"
    \/ src.kind = "string" /\ src.str = <<>>
    \/ src.kind = "number" /\ src.num = 0

\* the labels of a source: its head, split on the separators
LabelsOf(src, sep) == split(HeadOf(src.str), sep)

(***************************************************************************)
(* C16: getNumberPrefix returns the explicit numberPrefix whenever it is   *)
(* not empty; otherwise "" when the inference flag is off, when the source *)
(* (property value or base name) is empty, or when the labels of the       *)
(* source are not valid, and the inferred prefix in the remaining case.    *)
(* It always returns a string.                                             *)
(***************************************************************************)
C16_NumberPrefix ==
    numberPrefix # Pending =>
        LET s == titleSettings.def
            src == SourceOf(s.inferNumberPrefixFromProperty)
        IN  /\ numberPrefix.kind = "string"
            /\ s.numberPrefix # <<>> => numberPrefix.str = s.numberPrefix
            /\ (s.numberPrefix = <<>> /\ (~s.inferNumberPrefix \/ EmptySource(src))) =>
                  numberPrefix.str = <<>>
            /\ (s.numberPrefix = <<>> /\ s.inferNumberPrefix /\ src.kind = "string"
                  /\ src.str # <<>>) =>
                  numberPrefix.str =
                     IF areValidLabels(LabelsOf(src, s.inferNumberPrefixParseSep))
                     THEN inferNumberPrefix(src.str, s.inferNumberPrefixParseSep,
                                            s.inferNumberPrefixPrintSep,
                                            s.inferNumberPrefixUseFirstN).str
                     ELSE <<>>

\* the outcomes of the two getters agree in kind and in string
SameOutcome(a, b) == a.kind = b.kind /\ a.str = b.str

\* the equation fields hold the values of the callout fields
EqualFieldValues ==
    LET s == titleSettings.def
    IN  /\ s.eqNumberPrefix = s.numberPrefix
        /\ s.inferEqNumberPrefix = s.inferNumberPrefix
        /\ s.inferEqNumberPrefixFromProperty = s.inferNumberPrefixFromProperty
        /\ s.inferEqNumberPrefixParseSep = s.inferNumberPrefixParseSep
        /\ s.inferEqNumberPrefixPrintSep = s.inferNumberPrefixPrintSep
        /\ s.inferEqNumberPrefixUseFirstN = s.inferNumberPrefixUseFirstN

\* the settings in which each callout field holds the value of its equation
\* counterpart
EqFieldsAsCalloutFields ==
    LET s == titleSettings.def
    IN  [def |-> [numberPrefix |-> s.eqNumberPrefix,
                  inferNumberPrefix |-> s.inferEqNumberPrefix,
                  inferNumberPrefixFromProperty |-> s.inferEqNumberPrefixFromProperty,
                  inferNumberPrefixParseSep |-> s.inferEqNumberPrefixParseSep,
                  inferNumberPrefixPrintSep |-> s.inferEqNumberPrefixPrintSep,
                  inferNumberPrefixUseFirstN |-> s.inferEqNumberPrefixUseFirstN],
         undef |-> {}]

(***************************************************************************)
(* C17: getEqNumberPrefix has the outcome getNumberPrefix has on the same  *)
(* note when each callout field holds the value of its equation            *)
(* counterpart; so when the equation fields and the callout fields hold    *)
(* equal values, the two calls have the same outcome.                      *)
(***************************************************************************)
C17_EqPrefixSameFunction ==
    /\ eqNumberPrefix # Pending =>
          SameOutcome(eqNumberPrefix, getNumberPrefix(note, EqFieldsAsCalloutFields))
    /\ (numberPrefix # Pending /\ eqNumberPrefix # Pending /\ EqualFieldValues) =>
          SameOutcome(eqNumberPrefix, numberPrefix)

\* both getters infer "3.1." from the property "ch" of a note whose base name
\* would give "1.2."
C17_Witness ==
    /\ EqualFieldValues
    /\ numberPrefix = Returned(<<"3", ".", "1", ".">>)
    /\ eqNumberPrefix = Returned(<<"3", ".", "1", ".">>)
    /\ note.basename = <<"1", ".", "2", " ", "b">>
    /\ titleSettings.def.inferNumberPrefixUseFirstN = 2

\* the prefix token of the environment of the settings
PrefixToken == THEOREM_LIKE_ENVs[titleSettings.def.type].prefix

(***************************************************************************)
(* C18: formatLabel returns labelPrefix, the prefix token of the           *)
(* environment, ":" and the label when the label is a non-empty string,    *)
(* and returns absent when the label is missing or empty.                  *)
(***************************************************************************)
C18_Label ==
    formattedLabel # Pending =>
        IF "label" \in DOMAIN titleSettings.def /\ titleSettings.def.label # <<>>
        THEN formattedLabel = Returned(titleSettings.def.labelPrefix \o PrefixToken
                                       \o <<":">> \o titleSettings.def.label)
        ELSE formattedLabel = Undefined

\* the label "a1" of a definition with the labelPrefix "p": "pdef:a1"
C18_Witness ==
    /\ formattedLabel = Returned(<<"p", "d", "e", "f", ":", "a", "1">>)
    /\ titleSettings.def.type = "def"
    /\ titleSettings.def.labelPrefix = <<"p">>

\* the line is the header of a theorem callout whose settings are JSON
IsTheoremCallout(line) == line.kind = "math" /\ line.blob \in DOMAIN JSONTexts

\* the type written in the settings of the header
TypeOfLine(line) == JSONTexts[line.blob].def.type

\* how many theorem callouts of the type of line k stand before line k
RankInDocument(k) ==
    Cardinality({j \in 1..(k - 1) :
                    IsTheoremCallout(lines[j]) /\ TypeOfLine(lines[j]) = TypeOfLine(lines[k])})

\* the arabic numerals of 1 to 9
Arabic == << <<"1">>, <<"2">>, <<"3">>, <<"4">>, <<"5">>, <<"6">>, <<"7">>, <<"8">>, <<"9">> >>

\* the display names of the types
TypeName == [thm |-> <<"T", "h", "e", "o", "r", "e", "m">>,
             def |-> <<"D", "e", "f", "i", "n", "i", "t", "i", "o", "n">>]

\* the lines the items of the index were read from, in the order of the index
ItemLines == [i \in DOMAIN noteIndex |-> noteIndex[i].line]

\* the scan has gone through the whole note
ScanDone == position = Len(lines) /\ scanRaised = "none"

(***************************************************************************)
(* C19: the _index of an indexed callout is its zero-based rank among the  *)
(* callouts of its type in document order, whatever callouts of other      *)
(* types stand between them; with the default numberInit 1 and arabic      *)
(* style a callout numbered 'auto' is named by its type and rank + 1, so   *)
(* that three 'thm' callouts are Theorem 1, Theorem 2 and Theorem 3.       *)
(***************************************************************************)
C19_IndexIsRankAmongType ==
    \A i \in DOMAIN noteIndex :
        LET item == noteIndex[i]
            rank == RankInDocument(item.line)
        IN  /\ item.settings.def._index = rank
            /\ item.settings.def.number = Auto =>
                  item.printName.kind = "string"
                  /\ item.printName.str =
                        TypeName[item.settings.def.type] \o <<" ">> \o Arabic[rank + 1]

\* three thm callouts numbered 'auto' with a def callout and another
\* callout between them, scanned: Theorem 1, Theorem 2, Theorem 3
C19_Witness ==
    /\ ScanDone
    /\ lines = << Line("math", "thmAuto", <<>>), Line("math", "defAuto", <<>>),
                  Line("math", "thmAuto", <<>>), Line("math", "thmAuto", <<>>) >>
    /\ Len(noteIndex) = 4
    /\ noteIndex[1].printName.str = <<"T", "h", "e", "o", "r", "e", "m", " ", "1">>
    /\ noteIndex[2].printName.str = <<"D", "e", "f", "i", "n", "i", "t", "i", "o", "n", " ", "1">>
    /\ noteIndex[3].printName.str = <<"T", "h", "e", "o", "r", "e", "m", " ", "2">>
    /\ noteIndex[4].printName.str = <<"T", "h", "e", "o", "r", "e", "m", " ", "3">>

EntryState(n) ==
    IF notePath[n] # NoPath /\ notePath[n] \in DOMAIN vaultIndex THEN "Indexed" ELSE "Absent"

\* the lines the items of the entry of an indexed note were read from
EntryLines(n) == [i \in DOMAIN vaultIndex[notePath[n]] |-> vaultIndex[notePath[n]][i].line]

\* the lines of a content that are theorem callouts with valid settings
RECURSIVE CalloutLines(_, _)
CalloutLines(content, k) ==
    IF k > Len(content) THEN <<>>
    ELSE IF IsTheoremCallout(content[k]) THEN <<k>> \o CalloutLines(content, k + 1)
    ELSE CalloutLines(content, k + 1)

(***************************************************************************)
(* C21: the entry of a note is Absent or Indexed, and over the create,     *)
(* modify, rename and delete events it changes only from Absent to Indexed *)
(* by the first scan, from Indexed to Indexed with its contents replaced   *)
(* by a full rescan (or left alone by the event of another note), and from *)
(* Indexed to Absent by the deletion of the note; every entry of the index *)
(* is the entry of a note of the vault.                                    *)
(***************************************************************************)
C21_EntryStateMachine ==
    [][/\ \A n \in VaultNotes :
            /\ (EntryState(n) = "Absent" /\ EntryState(n)' = "Indexed") =>
                  lastEvent' = Event("create", n)
            /\ (EntryState(n) = "Indexed" /\ EntryState(n)' = "Absent") =>
                  lastEvent' = Event("delete", n)
            /\ (EntryState(n) = "Absent" /\ EntryState(n)' = "Absent") =>
                  lastEvent'.note # n
            /\ (EntryState(n) = "Indexed" /\ EntryState(n)' = "Indexed") =>
                  \/ lastEvent'.note # n
                        /\ vaultIndex'[notePath'[n]] = vaultIndex[notePath[n]]
                  \/ lastEvent' \in {Event("modify", n), Event("rename", n)}
            /\ EntryState(n)' = "Indexed" =>
                  EntryLines(n)' = CalloutLines(noteLines'[n], 1)
       /\ DOMAIN vaultIndex' = {notePath'[n] : n \in VaultNotes} \ {NoPath}
      ]_vars

\* a note was deleted while the other one, renamed to c.md, is indexed with
\* two items
C21_Witness ==
    /\ lastEvent = Event("delete", "n1")
    /\ EntryState("n1") = "Absent"
    /\ notePath["n2"] = "c.md"
    /\ EntryState("n2") = "Indexed"
    /\ Len(vaultIndex["c.md"]) = 2

RECURSIVE AncestorsOfFile(_)
\* the folders above a file, up to the root folder
AncestorsOfFile(f) ==
    IF TreeParent[f] = NoFile THEN {}
    ELSE {TreeParent[f]} \cup AncestorsOfFile(TreeParent[f])

(***************************************************************************)
(* C22: isEqualToOrChildOf(file1, file2) ends for every two files of the   *)
(* vault, the root folder as file1 with another file as file2 included,    *)
(* and it returns true exactly when file1 is file2 or file2 is an ancestor *)
(* of file1.                                                               *)
(***************************************************************************)
C22_TerminatesWithAncestry ==
    childOf \notin {"pending", "none"} =>
        /\ childOf \in {"true", "false"}
        /\ childOf = "true" <=> (file1 = file2 \/ file2 \in AncestorsOfFile(file1))

\* the paths of plugin.excludedFiles
ExcludedPaths == {excludedFiles[i] : i \in DOMAIN excludedFiles}

(***************************************************************************)
(* C23: after any sequence of modal operations that starts with            *)
(* excludedFiles and the keys of the per-path store disjoint, no path is   *)
(* both in excludedFiles and a key of the store.                           *)
(***************************************************************************)
C23_ExcludedHasNoRecord == ExcludedPaths \cap DOMAIN contextSettings = {}

(***************************************************************************)
(* C28: plugin.excludedFiles never holds the same path twice after any     *)
(* sequence of choices in FileExcludeSuggestModal and removals, each       *)
(* chosen file being one filterCallback accepts when it is chosen; a file  *)
(* that is excluded, or lies under an excluded folder, is not offered.     *)
(***************************************************************************)
C28_NoPathExcludedTwice ==
    /\ \A i, j \in DOMAIN excludedFiles :
          i # j => excludedFiles[i] # excludedFiles[j]
    /\ \A f \in AllLoadedFiles :
          (\E p \in ExcludedPaths : f = p \/ p \in AncestorsOfFile(f))
              => ~excludeFilterCallback(f, contextSettings, excludedFiles)

\* a folder and a note outside it are excluded, the folder first
C28_Witness == excludedFiles = << "A", "z.md" >>

\* what a close did, the emptying of the modal's content left aside
CloseSteps == SelectSeq(closeLog, LAMBDA e : e # "contentEl.empty()")

(***************************************************************************)
(* C24: every close of a ContextSettingModal, by the Save button or by     *)
(* another dismissal, starts saving the plugin settings, then triggers     *)
(* "math-booster:local-settings-updated" for the modal's file, then        *)
(* reopens the parent when there is one; with the Save button the          *)
(* callback, when there is one, runs after these steps and exactly once.   *)
(* Nothing of this happens while the modal is open.                        *)
(***************************************************************************)
C24_CloseOrder ==
    /\ contextModal.state = "open" => closeLog = <<>>
    /\ contextModal.state = "closed" =>
          CloseSteps =
              << "plugin.saveSettings()",
                 "trigger local-settings-updated " \o contextModal.file >>
              \o (IF contextModal.parent THEN << "parent.open()" >> ELSE <<>>)
              \o (IF contextModal.closedBy = "Save" /\ contextModal.callback
                  THEN << "callback(settings)" >> ELSE <<>>)

\* a modal with a callback was closed by its Save button, and the callback
\* was the last thing to run
C24_Witness ==
    /\ contextModal.state = "closed"
    /\ contextModal.closedBy = "Save"
    /\ contextModal.callback
    /\ Len(closeLog) = 4
    /\ closeLog[4] = "callback(settings)"

\* a modal with a parent was dismissed, and the parent was reopened last
C24_WitnessParent ==
    /\ contextModal.state = "closed"
    /\ contextModal.closedBy = "dismissal"
    /\ contextModal.parent
    /\ closeLog[Len(closeLog)] = "parent.open()"

\* the document of the item's note before the selection, and now
ItemDocBefore == DocsOf(suggestion.layout)[suggestion.itemFile]
ItemDocNow == docs[suggestion.itemFile]

\* insertBlockIdIfNotExist has returned and nothing was done since
BlockIdReturned == selected.phase \in {"awaiting", "returned"}

(***************************************************************************)
(* C26: insertBlockIdIfNotExist writes only when the cache has sections    *)
(* and the section has no block id.  With an id it returns that id and     *)
(* lineAdded 0 and writes nothing; with no sections in the cache it        *)
(* returns nothing and writes nothing; otherwise a blank line and then     *)
(* "^" + id stand directly after the section's last line, lineAdded is 2   *)
(* and the id is not a key of cache.blocks.                                *)
(***************************************************************************)
C26_BlockIdInsertion ==
    BlockIdReturned =>
        LET sec == ItemSection(suggestion.layout)
            r == selected.result
        IN  /\ \A f \in DOMAIN docs :
                  f # suggestion.itemFile => docs[f] = DocsOf(suggestion.layout)[f]
            /\ IF fileCache.null \/ ~fileCache.hasSections
               THEN ~r.returned /\ ItemDocNow = ItemDocBefore
               ELSE IF sec.id # <<>>
               THEN /\ r.returned /\ r.id = sec.id /\ r.lineAdded = 0
                    /\ ItemDocNow = ItemDocBefore
               ELSE /\ r.returned /\ r.lineAdded = 2
                    /\ Len(ItemDocNow) = Len(ItemDocBefore) + 2
                    /\ SubSeq(ItemDocNow, 1, sec.end + 1) = SubSeq(ItemDocBefore, 1, sec.end + 1)
                    /\ ItemDocNow[sec.end + 2] = <<>>
                    /\ ItemDocNow[sec.end + 3] = <<"^">> \o r.id
                    /\ SubSeq(ItemDocNow, sec.end + 4, Len(ItemDocNow))
                          = SubSeq(ItemDocBefore, sec.end + 2, Len(ItemDocBefore))
                    /\ ~(fileCache.hasBlocks /\ r.id \in fileCache.blocks)

\* an id was generated for a section that lines follow, in a note that has
\* another block already
C26_Witness ==
    /\ BlockIdReturned
    /\ selected.result.returned
    /\ selected.result.lineAdded = 2
    /\ suggestion.layout.taken
    /\ suggestion.layout.same /\ ~suggestion.layout.cursorFirst

\* the sequence ends with the suffix
EndsWith(s, suffix) ==
    Len(suffix) <= Len(s) /\ SubSeq(s, Len(s) - Len(suffix) + 1, Len(s)) = suffix

(***************************************************************************)
(* C25: when selectSuggestionImpl inserts a link to an item of the edited  *)
(* note, the range it replaces, in the document as it is after the block   *)
(* id lines were inserted, is the range that held the trigger text and the *)
(* query, wherever the item's section is relative to the cursor line and   *)
(* whether or not a block id had to be inserted.                           *)
(***************************************************************************)
C25_ReplacesTriggerRange ==
    (selected.phase = "inserted" /\ suggestion.itemFile = suggestion.file) =>
        /\ selected.held = TriggerText \o suggestion.layout.query
        /\ docs[suggestion.file][selected.from.line + 1]
              = << "s", " " >> \o selected.insertText \o << "." >>

(***************************************************************************)
(* C27: every link selectSuggestionImpl inserts names a target: its link   *)
(* text is not empty, starts with the link text of the item's note when    *)
(* the item is in another note, and ends with "#^" + block id when a block *)
(* link is asked for, for an item of the same or of another note and       *)
(* insertNoteLink true or false.                                           *)
(***************************************************************************)
C27_LinkNamesTarget ==
    selected.phase = "inserted" =>
        /\ selected.linktext # <<>>
        /\ suggestion.itemFile # suggestion.file =>
              StartsWith(selected.linktext, fileToLinktext(suggestion.itemFile))
        /\ ~selected.insertNoteLink =>
              EndsWith(selected.linktext, <<"#", "^">> \o selected.result.id)

====
